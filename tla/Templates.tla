------------------------------ MODULE Templates ------------------------------
(***************************************************************************)
(* Pages made of templates: filters/templates_filter.c and templates.c.    *)
(* A template may extend ("use") other templates and include files; each   *)
(* is fetched with a subrequest.  The response is delayed until the last   *)
(* of them has been read (files_pending); then the blocks are merged and   *)
(* the page is serialized.                                                 *)
(*                                                                         *)
(* Data.  A template is a sequence of tokens <<command, argument>>, where  *)
(* <<"text", "">> is text and <<"blank", "">> white space.  What is read,  *)
(* stored in blocks and sent are sequences of pieces <<uri, position>>.    *)
(* All buffers of a page collect into one stream of one nxb_buffer.        *)
(***************************************************************************)
EXTENDS Integers, Sequences, FiniteSets, SequencesExt

CONSTANTS Sites,     \* functions from uris to templates; the page's uri is "a"
          Modified,  \* the last_modified of every uri, 0 if it has none
          MaxSize,   \* MAX_TEMPLATE_SIZE, in tokens
          MaxLevel,  \* NXT_MAX_INHERITANCE_LEVEL
          MaxNesting \* NXT_MAX_BLOCK_NESTING

ASSUME TemplatesAssumption == MaxSize \in Nat /\ MaxLevel \in Nat /\ MaxNesting \in Nat

VARIABLES site,  \* the templates
          tf     \* tf_filter_data, nxt_context, files and subrequests

tfVars == <<site, tf>>

None == -1       \* BN_NONE_ID
Parent == -2     \* BN_PARENT_ID

NewFile(uri, level) ==
  [uri |-> uri, level |-> level,
   parents |-> <<>>,   \* indices of the files it uses
   blocks |-> <<>>]    \* [id, value, clear]: value is a sequence of [text, ins]

(* A tf_buffer and its subrequest: the content goes to a file, or to an    *)
(* include's block (0 if not).                                             *)
NewLoad(uri, file, blk) == [uri |-> uri, file |-> file, blk |-> blk, got |-> 0, st |-> "received"]

(* tf_do_filter: nxt_init, nxt_file_create for the page itself.            *)
TemplatesInit ==
  /\ site \in Sites
  /\ \E since \in {0, 1} :
       tf = [pending |-> 1, error |-> FALSE, names |-> <<>>,
             files |-> <<NewFile("a", 0)>>,
             loads |-> <<[NewLoad("a", 1, 0) EXCEPT !.st = "reading"]>>,
             nxb |-> <<>>,            \* the unfinished stream
             last_modified |-> Modified["a"], since |-> since,
             closing |-> FALSE,
             overlap |-> FALSE,       \* two responses were in the stream at once
             status |-> 0, page |-> <<>>, starts |-> 0]

-----------------------------------------------------------------------------
(* Blocks.                                                                 *)

(* The id of a name, a new one for an include (name = "").                 *)
IdOf(s, name) ==
  LET known == {i \in DOMAIN s.names : s.names[i] = name /\ name # ""}
  IN  IF known = {} THEN Len(s.names) ELSE (CHOOSE i \in known : TRUE) - 1

BlockAt(s, f, id) == SelectInSeq(s.files[f].blocks, LAMBDA b : b.id = id)

nxt_block_create(s, f, name) ==
  LET id == IdOf(s, name)
      t == IF id = Len(s.names) THEN [s EXCEPT !.names = Append(@, name)] ELSE s
  IN  IF BlockAt(s, f, id) # 0 THEN t
      ELSE [t EXCEPT !.files[f].blocks = Append(@, [id |-> id, value |-> <<>>, clear |-> FALSE])]

(* Mutant of nxt_block_append_value: a block that is defined again keeps   *)
(* its first value.                                                        *)
AppendKeeps(s, f, b, text, ins) ==
  [s EXCEPT !.files[f].blocks[b].value = Append(@, [text |-> text, ins |-> ins]),
            !.files[f].blocks[b].clear = FALSE]

nxt_block_append_value(s, f, b, text, ins) ==
  LET blk == s.files[f].blocks[b]
      part == [text |-> text, ins |-> ins]
  IN  [s EXCEPT !.files[f].blocks[b].value = IF blk.clear THEN <<part>> ELSE Append(@, part),
                !.files[f].blocks[b].clear = FALSE]

AppendText(s, f, b, text) ==
  IF text = <<>> THEN s ELSE nxt_block_append_value(s, f, b, text, None)

-----------------------------------------------------------------------------
(* tf_buffer_init, nxweb_http_server_subrequest_start; nxb_start_stream    *)
(* drops what was being collected.                                         *)
tf_load(s, uri, file, blk) ==
  LET t == [s EXCEPT !.nxb = <<>>, !.overlap = @ \/ s.nxb # <<>>]
  IN  IF s.closing THEN t ELSE [t EXCEPT !.loads = Append(@, NewLoad(uri, file, blk))]

(* files_pending++ upon successful load.                                   *)
Counted(s) == IF s.closing THEN [s EXCEPT !.error = TRUE] ELSE [s EXCEPT !.pending = @ + 1]

nxt_use(s, f, uri) ==
  LET n == Len(s.files) + 1
      level == s.files[f].level + 1
      t == [s EXCEPT !.files = Append([@ EXCEPT ![f].parents = Append(@, n)], NewFile(uri, level))]
  IN  IF s.files[f].level >= MaxLevel THEN [s EXCEPT !.error = TRUE]
      ELSE Counted(tf_load(t, uri, n, 0))

nxt_include(s, f, uri) ==
  LET t == nxt_block_create(s, f, "")
  IN  Counted(tf_load(t, uri, f, Len(t.files[f].blocks)))

-----------------------------------------------------------------------------
(* nxt_parse_file of the pieces in content.                                *)

Token(piece) == site[piece[1]][piece[2]]
IsText(piece) == Token(piece)[1] \in {"text", "blank"}

(* nxt_get_next_cmd: the next command from position p on, 0 if none; in    *)
(* raw mode only "endraw" counts.                                          *)
NextCmd(content, p, raw) ==
  LET at == {q \in p .. Len(content) : IF raw THEN Token(content[q])[1] = "endraw"
                                       ELSE ~ IsText(content[q])}
  IN  IF at = {} THEN 0 ELSE CHOOSE q \in at : \A r \in at : q <= r

RECURSIVE ParseFrom(_, _, _, _, _, _)
ParseFrom(s, f, content, p, raw, stack) ==
  LET q == NextCmd(content, p, raw)
      text == SubSeq(content, p, IF q = 0 THEN Len(content) ELSE q - 1)
      cur == Last(stack)
      cmd == Token(content[q])[1]
      arg == Token(content[q])[2]
      Go(t, st) == IF t.error THEN t ELSE ParseFrom(t, f, content, q + 1, FALSE, st)
      appended == AppendText(s, f, cur, text)
      Error(t) == [t EXCEPT !.error = TRUE]
  IN  IF p > Len(content) THEN IF Len(stack) > 1 THEN Error(s) ELSE s
      ELSE IF q = 0 THEN ParseFrom(appended, f, content, Len(content) + 1, raw, stack)
      ELSE IF raw THEN Go(appended, stack)
      ELSE CASE cmd = "raw" -> ParseFrom(appended, f, content, q + 1, TRUE, stack)
             [] cmd = "endraw" -> Go(s, stack)
             [] cmd = "use" -> Go(nxt_use(appended, f, arg), stack)
             [] cmd = "parent" -> Go(nxt_block_append_value(s, f, cur, text, Parent), stack)
             [] cmd = "include" ->
                  LET t == nxt_include(s, f, arg)
                  IN  IF t.error THEN t
                      ELSE Go(nxt_block_append_value(t, f, cur, text, Last(t.files[f].blocks).id), stack)
             [] cmd = "endblock" ->
                  IF Len(stack) = 1 THEN Error(appended) ELSE Go(appended, Front(stack))
             [] cmd = "block" ->
                  LET t == nxt_block_create(s, f, arg)
                      b == BlockAt(t, f, IdOf(t, arg))
                      u == nxt_block_append_value(t, f, cur, text, IdOf(t, arg))
                  IN  IF Len(stack) >= MaxNesting THEN Error(s)
                      ELSE Go([u EXCEPT !.files[f].blocks[b].clear = TRUE], Append(stack, b))

(* An earlier error of another file does not stop this one.                *)
nxt_parse_file(s, f, content) ==
  LET t == ParseFrom(nxt_block_create([s EXCEPT !.error = FALSE], f, "_top_"), f, content, 1, FALSE, <<1>>)
  IN  [t EXCEPT !.error = @ \/ s.error, !.pending = @ - 1]

-----------------------------------------------------------------------------
(* nxt_merge: for every id the block that is in effect, and for every      *)
(* block the one it overrides; a block is <<file, index>>, <<0, 0>> none.  *)

NoBlock == <<0, 0>>

nxt_is_top_block_empty(blk) ==
  \A i \in DOMAIN blk.value : \A k \in DOMAIN blk.value[i].text : Token(blk.value[i].text[k])[1] = "blank"

MergeBlock(s, m, f, b) ==
  LET blk == s.files[f].blocks[b]
  IN  IF blk.value = <<>> \/ (blk.id = 0 /\ nxt_is_top_block_empty(blk)) THEN m
      ELSE [block |-> [m.block EXCEPT ![blk.id] = <<f, b>>],
            parent |-> [m.parent EXCEPT ![<<f, b>>] = m.block[blk.id]]]

RECURSIVE nxt_merge_file(_, _, _)
nxt_merge_file(s, m, f) ==
  LET parents == FoldLeft(LAMBDA a, p : nxt_merge_file(s, a, p), m, s.files[f].parents)
  IN  FoldLeft(LAMBDA a, b : MergeBlock(s, a, f, b), parents,
               [b \in DOMAIN s.files[f].blocks |-> b])

nxt_merge(s) ==
  LET blocks == UNION {{<<f, b>> : b \in DOMAIN s.files[f].blocks} : f \in DOMAIN s.files}
  IN  nxt_merge_file(s, [block |-> [i \in 0 .. Len(s.names) - 1 |-> NoBlock],
                         parent |-> [b \in blocks |-> NoBlock]], 1)

RECURSIVE nxt_serialize_block(_, _, _)
nxt_serialize_block(s, m, b) ==
  IF b = NoBlock THEN <<>> ELSE
  FoldLeft(LAMBDA out, part :
             out \o part.text \o
             (IF part.ins > 0 THEN nxt_serialize_block(s, m, m.block[part.ins])
              ELSE IF part.ins = Parent THEN nxt_serialize_block(s, m, m.parent[b]) ELSE <<>>),
           <<>>, s.files[b[1]].blocks[b[2]].value)

Message == <<<<"error", 0>>>>

nxt_serialize_to_cs(s) ==
  IF s.error THEN Message ELSE LET m == nxt_merge(s) IN nxt_serialize_block(s, m, m.block[0])

NotModified(s) == s.since # 0 /\ s.last_modified # 0 /\ s.last_modified <= s.since

tf_check_complete(s) ==
  IF s.pending # 0 THEN s
  ELSE [s EXCEPT !.starts = @ + 1, !.status = IF NotModified(s) THEN 304 ELSE 200,
                 !.page = IF NotModified(s) THEN <<>> ELSE nxt_serialize_to_cs(s)]

-----------------------------------------------------------------------------
(* The subrequests and their content.                                      *)

Step(l, st) == tf' = [tf EXCEPT !.loads[l].st = st] /\ UNCHANGED site

(* REQUEST_RECEIVED; it is not handled when the connection is closing.     *)
Received(l) ==
  /\ tf.loads[l].st = "received" /\ Step(l, IF tf.closing THEN "dropped" ELSE "asked")

(* tf_on_subrequest_ready with status 200 and content, or without.         *)
tf_on_subrequest_ready(l) ==
  LET load == tf.loads[l]
      lm == Modified[load.uri]
      s == [tf EXCEPT !.last_modified =
              IF @ = 0 \/ lm = 0 THEN 0 ELSE IF lm > @ THEN lm ELSE @]
  IN  /\ load.st = "asked" /\ UNCHANGED site
      /\ tf' = IF site[load.uri] # <<>> THEN [s EXCEPT !.loads[l].st = "reading"]
               ELSE tf_check_complete([s EXCEPT !.loads[l].st = "done", !.pending = @ - 1])

(* Another status, or a failure while the response is being read.          *)
tf_on_subrequest_failed(l) ==
  /\ l > 1 /\ tf.loads[l].st \in {"asked", "reading"} /\ UNCHANGED site
  /\ tf' = tf_check_complete(
             [tf EXCEPT !.loads[l].st = "failed", !.pending = @ - 1, !.nxb = <<>>,
                        !.overlap = @ \/ \E k \in DOMAIN tf.nxb : tf.nxb[k][1] # l])

(* The stream with n more pieces of load l at its end.                     *)
Collected(s, l, n) ==
  [s EXCEPT !.nxb = @ \o [k \in 1 .. n |-> <<l, s.loads[l].got + k>>],
            !.loads[l].got = @ + n,
            !.overlap = @ \/ \E k \in DOMAIN s.nxb : s.nxb[k][1] # l]

(* A write of tf_buffer_data_in_write that is not the last.                *)
SomeWritten(l) ==
  LET load == tf.loads[l]
  IN  /\ load.st = "reading" /\ load.got = 0 /\ Len(site[load.uri]) > 1 /\ UNCHANGED site
      /\ tf' = Collected(tf, l, 1)

(* Mutant of Finished: a file that was too long stays in the count.        *)
FinishedStillCounted(s, l, content) ==
  LET load == s.loads[l]
  IN  IF load.got >= MaxSize THEN tf_check_complete([s EXCEPT !.error = TRUE])
      ELSE IF load.blk = 0 THEN tf_check_complete(nxt_parse_file(s, load.file, content))
      ELSE tf_check_complete([nxt_block_append_value(s, load.file, load.blk, content, None)
                                EXCEPT !.pending = @ - 1])

(* The content of load l is complete; one that was too long is an error.   *)
Finished(s, l, content) ==
  LET load == s.loads[l]
  IN  IF load.got >= MaxSize THEN tf_check_complete([s EXCEPT !.error = TRUE, !.pending = @ - 1])
      ELSE IF load.blk = 0 THEN tf_check_complete(nxt_parse_file(s, load.file, content))
      ELSE tf_check_complete([nxt_block_append_value(s, load.file, load.blk, content, None)
                                EXCEPT !.pending = @ - 1])

(* The last write, with NXEF_EOF: nxb_finish_stream takes all there is.    *)
tf_buffer_data_in_write(l) ==
  LET load == tf.loads[l]
      s == Collected(tf, l, Len(site[load.uri]) - load.got)
      content == [k \in DOMAIN s.nxb |-> <<s.loads[s.nxb[k][1]].uri, s.nxb[k][2]>>]
  IN  /\ load.st = "reading" /\ UNCHANGED site
      /\ tf' = Finished([s EXCEPT !.nxb = <<>>, !.loads[l].st = "done"], l, content)

(* The client's connection fails while a subrequest is in a worker, so it  *)
(* is marked for closing only.                                             *)
MarkClosing ==
  /\ ~ tf.closing /\ \E l \in DOMAIN tf.loads : tf.loads[l].st = "asked"
  /\ tf' = [tf EXCEPT !.closing = TRUE] /\ UNCHANGED site

TemplatesNext ==
  \/ \E l \in DOMAIN tf.loads :
       \/ Received(l) \/ tf_on_subrequest_ready(l) \/ tf_on_subrequest_failed(l)
       \/ SomeWritten(l) \/ tf_buffer_data_in_write(l)
  \/ MarkClosing

TemplatesSpec == TemplatesInit /\ [][TemplatesNext]_tfVars

-----------------------------------------------------------------------------
Settled(l) == tf.loads[l].st \in {"done", "failed"}

TemplatesTypeOK ==
  /\ site \in Sites /\ tf.pending \in Nat /\ tf.status \in {0, 200, 304}
  /\ \A l \in DOMAIN tf.loads :
       tf.loads[l].st \in {"received", "dropped", "asked", "reading", "done", "failed"}
  /\ \A f \in DOMAIN tf.files : tf.files[f].level <= MaxLevel

(* The response is started once, when every file has been read or has      *)
(* failed: no file that is parsed late, answered out of turn, empty or     *)
(* failed in the middle starts it early or keeps it from starting.  "Not   *)
(* modified" is answered only if no part was modified.                     *)
StartsWhenRead ==
  /\ tf.pending = Cardinality({l \in DOMAIN tf.loads : ~ Settled(l)})
  /\ tf.starts = IF tf.pending = 0 THEN 1 ELSE 0
  /\ tf.status = 304 => \A l \in DOMAIN tf.loads :
       tf.loads[l].st = "done" => Modified[tf.loads[l].uri] \in 1 .. tf.since

(* What a template says, read without the parser.  A block is named by the *)
(* position of its opening, the top by 0; a command between "raw" and      *)
(* "endraw" is text.                                                       *)
Cmd(u, p) == site[u][p][1]
InRaw(u, p) ==
  /\ Cmd(u, p) # "endraw"
  /\ \E q \in 1 .. p - 1 : Cmd(u, q) = "raw" /\ \A r \in q + 1 .. p - 1 : Cmd(u, r) # "endraw"
Is(u, p, cmd) == Cmd(u, p) = cmd /\ ~ InRaw(u, p)
Level(u, p) ==
  Cardinality({q \in 1 .. p : Is(u, q, "block")}) - Cardinality({q \in 1 .. p : Is(u, q, "endblock")})
Opener(u, p) ==
  Max({0} \cup {q \in 1 .. p - 1 : /\ Is(u, q, "block")
                                   /\ \A r \in q .. p - 1 : Level(u, r) >= Level(u, q)})
Parts(u, q) ==
  {p \in 1 .. Len(site[u]) :
     /\ Opener(u, p) = q
     /\ InRaw(u, p) \/ Cmd(u, p) \in {"text", "blank", "block", "include", "parent"}}
Openings(u, name) ==
  IF name = "_top_" THEN {0} ELSE {q \in 1 .. Len(site[u]) : Is(u, q, "block") /\ site[u][q][2] = name}

(* The last definition of a block that says something.                     *)
Body(u, name) ==
  LET said == {q \in Openings(u, name) : Parts(u, q) # {}}
  IN  IF said = {} THEN <<>> ELSE SetToSortSeq(Parts(u, Max(said)), <)

LoadOf(f) == SelectInSeq(tf.loads, LAMBDA l : l.file = f /\ l.blk = 0)
Says(f, name) ==
  /\ LoadOf(f) # 0 /\ tf.loads[LoadOf(f)].st = "done" /\ Body(tf.files[f].uri, name) # <<>>
  /\ name = "_top_" => \E p \in Parts(tf.files[f].uri, 0) :
       LET u == tf.files[f].uri IN Cmd(u, p) # "blank" /\ (InRaw(u, p) \/ Cmd(u, p) = "text")

RECURSIVE Inherited(_)
Inherited(f) == Append(FlattenSeq([k \in DOMAIN tf.files[f].parents |-> Inherited(tf.files[f].parents[k])]), f)
Chain(name) == SelectSeq(Inherited(1), LAMBDA f : Says(f, name))

(* The content of the include at position p of file f.                     *)
Included(f, p) ==
  LET before == Cardinality({q \in 1 .. p : Is(tf.files[f].uri, q, "include")})
      load == SelectSeq(tf.loads, LAMBDA l : l.file = f /\ l.blk # 0)[before]
  IN  IF load.st = "done" THEN [k \in DOMAIN site[load.uri] |-> <<load.uri, k>>] ELSE <<>>

RECURSIVE Rendered(_, _)
Rendered(name, k) ==
  IF k = 0 THEN <<>> ELSE
  LET f == Chain(name)[k]
      u == tf.files[f].uri
      Part(p) == CASE Is(u, p, "block") -> Rendered(site[u][p][2], Len(Chain(site[u][p][2])))
                   [] Is(u, p, "include") -> Included(f, p)
                   [] Is(u, p, "parent") -> Rendered(name, k - 1)
                   [] OTHER -> <<<<u, p>>>>
  IN  FlattenSeq([i \in DOMAIN Body(u, name) |-> Part(Body(u, name)[i])])

(* What is wrong with the files that were read.                            *)
Wrong ==
  \/ \E l \in DOMAIN tf.loads : tf.loads[l].st = "done" /\ Len(site[tf.loads[l].uri]) >= MaxSize
  \/ \E f \in DOMAIN tf.files :
       LET u == tf.files[f].uri
           n == Len(site[u])
       IN  /\ LoadOf(f) # 0 /\ tf.loads[LoadOf(f)].st = "done"
           /\ \/ Level(u, n) # 0 \/ \E p \in 1 .. n : Level(u, p) \notin 0 .. MaxNesting - 1
              \/ tf.files[f].level = MaxLevel /\ \E p \in 1 .. n : Is(u, p, "use")

(* The page is what the templates say: every block is the one of the last  *)
(* file that defines it, parents before children, "parent" the one before  *)
(* it, in whatever order the files came - as long as no two responses were *)
(* in the shared stream at once.  An error is one of the files' own.       *)
PageMerged ==
  tf.status = 200 /\ ~ tf.overlap =>
    /\ tf.closing \/ tf.error = Wrong
    /\ tf.page = IF tf.error THEN Message ELSE Rendered("_top_", Len(Chain("_top_")))
=============================================================================
