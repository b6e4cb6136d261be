------------------------ MODULE LanguageBufferProofs ------------------------
(***************************************************************************)
(* Proofs about LanguageBuffer, for all languages and any number of        *)
(* operations: an idle buffer has been parsed, requests for indentation    *)
(* are only forgotten where the code forgets them, and a buffer that says  *)
(* it is clean shows what is in the file.                                  *)
(*                                                                         *)
(* Every handler is a composition of a few operators on the buffer.  What  *)
(* each of them does to the fields that matter is a lemma; the handlers    *)
(* are then reasoned about through two relations, Grows (the history of    *)
(* the text only gets longer) and SameSaved (what is remembered of the     *)
(* file is left alone).                                                    *)
(***************************************************************************)
EXTENDS LanguageBuffer, SequenceTheorems, TLAPS

-----------------------------------------------------------------------------
(* Types.                                                                  *)

Positive == Nat \ {0}

AnyLanguage == Languages \cup {NoLanguage}

Version == [n : Positive, text : Positive]

Parse == [n : Int, language : AnyLanguage]

Transaction == [before : Positive, after : Positive]

BufferType ==
    [version : Version, contents : Seq(Int), undo_stack : Seq(Transaction),
     language : AnyLanguage, syntax : Parse, parse_status : {"Idle", "Parsing"},
     reparse : Parse, autoindent_requests : BOOLEAN, pending_autoindent : BOOLEAN,
     wait_for_autoindent_txs : BOOLEAN, lost_reparse : BOOLEAN,
     saved_version : Version, has_unsaved_edits : [n : Positive, answer : BOOLEAN],
     has_conflict : BOOLEAN, saved_mtime : Nat, file_mtime : Nat,
     reload_needed : BOOLEAN]

SaveType ==
    [id : Nat, stage : {"called", "opened", "written", "statted"}, mtime : Nat,
     version : Version, overtaken : BOOLEAN]

-----------------------------------------------------------------------------
(* The inductive invariant.                                                *)

(* A background parse shows in the status. *)
BusyMeansParsing(b) == b.reparse # NoParse => b.parse_status = "Parsing"

IdleParsed(b) ==
    b.parse_status = "Idle" /\ b.language # NoLanguage /\ ~b.lost_reparse =>
        b.syntax = [n |-> b.version.n, language |-> b.language]

(* The history has a text for every version the buffer may go back to. *)
HistoryComplete(b) ==
    /\ Len(b.contents) = b.version.n
    /\ b.version.text <= b.version.n
    /\ b.saved_version.text <= b.version.n
    /\ \A i \in 1..Len(b.undo_stack) : b.undo_stack[i].before <= b.version.n

(* The cached answer is never FALSE for a text that is not the saved one. *)
CacheSound(b) ==
    /\ b.has_unsaved_edits.n <= b.version.n
    /\ b.has_unsaved_edits.n = b.version.n /\ ~b.has_unsaved_edits.answer =>
          b.version.text = b.saved_version.text

Sound(b) == BusyMeansParsing(b) /\ HistoryComplete(b) /\ CacheSound(b)

(* A version that was the buffer's at some time. *)
Known(b, version) ==
    /\ version \in Version
    /\ version.n <= b.version.n
    /\ version.text <= b.version.n
    /\ version.n = b.version.n => version = b.version

FileKnown ==
    /\ disk \in [content : Int, mtime : Nat]
    /\ buffer.saved_mtime <= disk.mtime
    /\ buffer.file_mtime <= disk.mtime

(* What a save has written stays in the file until the mtime changes, if   *)
(* nobody else wrote between its opening of the file and its look at the   *)
(* mtime.                                                                  *)
SavesSound ==
    \A save \in saves :
        /\ save \in SaveType
        /\ Known(buffer, save.version)
        /\ save.mtime <= disk.mtime
        /\ /\ save.stage \in {"written", "statted"} /\ ~save.overtaken
           /\ save.mtime = disk.mtime
           => TextAt(buffer, save.version) = disk.content

(* The bytes a reload has read are at least as new as its mtime. *)
ReloadSound ==
    /\ reload.stage \in {"none", "called", "loading", "loaded", "diffed"}
    /\ reload.stage # "none" => Known(buffer, reload.prev_version)
    /\ reload.stage \in {"loading", "loaded", "diffed"} =>
          reload.mtime \in Nat /\ reload.mtime <= disk.mtime
    /\ reload.stage \in {"loaded", "diffed"} =>
          /\ reload.content \in Int
          /\ reload.mtime = disk.mtime => reload.content = disk.content
    /\ reload.stage = "diffed" =>
          /\ Known(buffer, reload.base_version)
          /\ reload.edits \in BOOLEAN
          /\ ~reload.edits => TextAt(buffer, reload.base_version) = reload.content

TypeOK == buffer \in BufferType /\ budget \in [Ops -> Nat]

IInv ==
    /\ TypeOK
    /\ Sound(buffer)
    /\ IdleParsed(buffer)
    /\ FileKnown
    /\ SavesSound
    /\ ReloadSound

-----------------------------------------------------------------------------
(* The operators the handlers are made of.                                 *)

SameText(b, c) ==
    c.version = b.version /\ c.contents = b.contents /\ c.undo_stack = b.undo_stack

SameSaved(b, c) ==
    /\ c.saved_version = b.saved_version
    /\ c.saved_mtime = b.saved_mtime
    /\ c.file_mtime = b.file_mtime
    /\ c.has_conflict = b.has_conflict

SameCache(b, c) == c.has_unsaved_edits = b.has_unsaved_edits

SameParse(b, c) ==
    /\ c.language = b.language
    /\ c.syntax = b.syntax
    /\ c.parse_status = b.parse_status
    /\ c.reparse = b.reparse
    /\ c.lost_reparse = b.lost_reparse

SameIndent(b, c) ==
    /\ c.autoindent_requests = b.autoindent_requests
    /\ c.wait_for_autoindent_txs = b.wait_for_autoindent_txs
    /\ c.pending_autoindent = b.pending_autoindent

(* has_unsaved_edits answers yes or no, and no only for the saved text. *)
LEMMA HasUnsavedEditsLemma ==
    ASSUME NEW b \in BufferType
    PROVE  /\ HasUnsavedEdits(b) \in BOOLEAN
           /\ CacheSound(b) /\ ~HasUnsavedEdits(b) => b.version.text = b.saved_version.text
BY DEF HasUnsavedEdits, HasEditsSince, BufferType, CacheSound

(* Asking only fills the cache. *)
LEMMA AskedLemma ==
    ASSUME NEW b \in BufferType
    PROVE  /\ Asked(b) \in BufferType
           /\ SameText(b, Asked(b))
           /\ SameSaved(b, Asked(b))
           /\ SameParse(b, Asked(b))
           /\ SameIndent(b, Asked(b))
           /\ CacheSound(b) => CacheSound(Asked(b))
<1> DEFINE answer == HasUnsavedEdits(b)
<1>1. answer \in BOOLEAN /\ (CacheSound(b) /\ ~answer => b.version.text = b.saved_version.text)
  BY HasUnsavedEditsLemma
<1> DEFINE entry == [n |-> b.version.n, answer |-> answer]
<1>2. Asked(b) = IF b.has_conflict THEN b ELSE [b EXCEPT !.has_unsaved_edits = entry]
  BY DEF Asked
<1> HIDE DEF answer
<1>3. entry \in [n : Positive, answer : BOOLEAN] /\ entry.n = b.version.n /\ entry.answer = answer
  BY <1>1 DEF BufferType, Version
<1> HIDE DEF entry
<1>4. Asked(b) \in BufferType
  <2>1. CASE b.has_conflict
    BY <1>2, <2>1
  <2>2. CASE ~b.has_conflict
    <3>1. [b EXCEPT !.has_unsaved_edits = entry] \in BufferType
      BY <1>3 DEF BufferType
    <3>2. QED
      BY <1>2, <2>2, <3>1
  <2>3. QED
    BY <2>1, <2>2
<1>5. /\ SameText(b, Asked(b)) /\ SameSaved(b, Asked(b)) /\ SameParse(b, Asked(b))
      /\ SameIndent(b, Asked(b))
  BY <1>2 DEF BufferType, SameText, SameSaved, SameParse, SameIndent
<1>6. ASSUME CacheSound(b) PROVE CacheSound(Asked(b))
  <2>1. CASE b.has_conflict
    BY <1>2, <1>6, <2>1
  <2>2. CASE ~b.has_conflict
    <3>1. Asked(b).has_unsaved_edits = entry /\ SameText(b, Asked(b)) /\ SameSaved(b, Asked(b))
      BY <1>2, <1>5, <2>2 DEF BufferType
    <3>2. QED
      BY <1>1, <1>3, <1>6, <3>1 DEF CacheSound, SameText, SameSaved, BufferType, Version, Positive
  <2>3. QED
    BY <2>1, <2>2
<1>7. QED
  BY <1>4, <1>5, <1>6

(* So does the end of did_edit, but for the request to reload. *)
LEMMA NoticeDirtyLemma ==
    ASSUME NEW b \in BufferType, NEW was_dirty \in BOOLEAN
    PROVE  LET c == NoticeDirty(b, was_dirty)
           IN  /\ c \in BufferType
               /\ SameText(b, c)
               /\ SameSaved(b, c)
               /\ SameParse(b, c)
               /\ SameIndent(b, c)
               /\ CacheSound(b) => CacheSound(c)
<1> DEFINE a == Asked(b)
           needed == a.reload_needed \/ (was_dirty /\ ~IsDirty(a) /\ a.file_mtime # a.saved_mtime)
<1>1. /\ a \in BufferType /\ SameText(b, a) /\ SameSaved(b, a) /\ SameParse(b, a)
      /\ SameIndent(b, a) /\ (CacheSound(b) => CacheSound(a))
  BY AskedLemma
<1>2. needed \in BOOLEAN
  BY <1>1 DEF BufferType
<1>3. NoticeDirty(b, was_dirty) = [a EXCEPT !.reload_needed = needed]
  BY <1>1 DEF NoticeDirty, BufferType
<1> DEFINE c == NoticeDirty(b, was_dirty)
<1> HIDE DEF a, needed
<1>4. c \in BufferType
  BY <1>1, <1>2, <1>3 DEF BufferType
<1>5. SameText(a, c) /\ SameSaved(a, c) /\ SameCache(a, c) /\ SameParse(a, c) /\ SameIndent(a, c)
  BY <1>1, <1>3 DEF BufferType, SameText, SameSaved, SameCache, SameParse, SameIndent
<1> HIDE DEF c
<1>6. SameText(b, c) /\ SameSaved(b, c) /\ SameParse(b, c) /\ SameIndent(b, c)
  BY <1>1, <1>5 DEF SameText, SameSaved, SameParse, SameIndent
<1>7. CacheSound(a) => CacheSound(c)
  BY <1>5 DEF CacheSound, SameText, SameSaved, SameCache
<1>8. QED
  BY <1>1, <1>4, <1>6, <1>7 DEF c

(* Whoever waits for an indentation is told. *)
LEMMA ToldLemma ==
    ASSUME NEW b \in BufferType
    PROVE  /\ Told(b) \in BufferType
           /\ SameText(b, Told(b))
           /\ SameSaved(b, Told(b))
           /\ SameCache(b, Told(b))
           /\ SameParse(b, Told(b))
           /\ Told(b).pending_autoindent = b.pending_autoindent
           /\ ~Told(b).autoindent_requests
           /\ ~Told(b).wait_for_autoindent_txs
BY DEF Told, BufferType, SameText, SameSaved, SameCache, SameParse

(* A parse that is done at once. *)
LEMMA ParsedLemma ==
    ASSUME NEW b \in BufferType
    PROVE  /\ Parsed(b) \in BufferType
           /\ SameText(b, Parsed(b))
           /\ SameSaved(b, Parsed(b))
           /\ SameCache(b, Parsed(b))
           /\ SameIndent(b, Parsed(b))
           /\ Parsed(b).syntax = [n |-> b.version.n, language |-> b.language]
           /\ Parsed(b).language = b.language
           /\ Parsed(b).reparse = b.reparse
           /\ ~Parsed(b).lost_reparse
<1> DEFINE tree == [n |-> b.version.n, language |-> b.language]
<1>1. tree \in Parse
  BY DEF BufferType, Version, Positive, Parse
<1>2. Parsed(b) = [b EXCEPT !.syntax = tree, !.lost_reparse = FALSE]
  BY DEF Parsed
<1> HIDE DEF tree
<1>3. Parsed(b) \in BufferType
  BY <1>1, <1>2 DEF BufferType
<1>4. /\ SameText(b, Parsed(b)) /\ SameSaved(b, Parsed(b)) /\ SameCache(b, Parsed(b))
      /\ SameIndent(b, Parsed(b)) /\ Parsed(b).syntax = tree /\ Parsed(b).language = b.language
      /\ Parsed(b).reparse = b.reparse /\ ~Parsed(b).lost_reparse
  BY <1>2 DEF BufferType, SameText, SameSaved, SameCache, SameIndent
<1>5. QED
  BY <1>3, <1>4 DEF tree

(* A parse that is left to a task. *)
LEMMA SpawnParseLemma ==
    ASSUME NEW b \in BufferType
    PROVE  /\ SpawnParse(b) \in BufferType
           /\ SameText(b, SpawnParse(b))
           /\ SameSaved(b, SpawnParse(b))
           /\ SameCache(b, SpawnParse(b))
           /\ SameIndent(b, SpawnParse(b))
           /\ SpawnParse(b).language = b.language
           /\ SpawnParse(b).reparse # NoParse
           /\ SpawnParse(b).parse_status = "Parsing"
<1>1. [n |-> b.version.n, language |-> b.language].n # NoParse.n
  BY DEF NoParse, BufferType, Version, Positive
<1> DEFINE task == [n |-> b.version.n, language |-> b.language]
<1>2. task \in Parse
  BY DEF BufferType, Version, Positive, Parse
<1>3. SpawnParse(b) = [b EXCEPT !.parse_status = "Parsing", !.reparse = task] /\ task # NoParse
  BY <1>1 DEF SpawnParse
<1> HIDE DEF task
<1>4. SpawnParse(b) \in BufferType
  BY <1>2, <1>3 DEF BufferType
<1>5. QED
  BY <1>3, <1>4 DEF BufferType, SameText, SameSaved, SameCache, SameIndent

(* The synchronous end of reparse. *)
LEMMA EndOfReparseLemma ==
    ASSUME NEW b \in BufferType
    PROVE  LET c == EndOfReparse(b)
           IN  /\ c \in BufferType
               /\ SameText(b, c)
               /\ SameSaved(b, c)
               /\ SameCache(b, c)
               /\ SameIndent(b, c)
               /\ c.language = b.language
               /\ c.syntax = b.syntax
               /\ c.reparse = NoParse
               /\ b.reparse # NoParse => c.lost_reparse
<1> DEFINE c == EndOfReparse(b)
           lost == b.lost_reparse \/ b.reparse # NoParse
<1>1. NoParse \in Parse
  BY DEF NoParse, Parse, AnyLanguage
<1>2. lost \in BOOLEAN /\ (b.reparse # NoParse => lost)
  BY DEF BufferType
<1>3. c = [b EXCEPT !.parse_status = "Idle", !.lost_reparse = lost, !.reparse = NoParse]
  BY DEF EndOfReparse, BufferType
<1> HIDE DEF c, lost
<1>4. c \in BufferType
  BY <1>1, <1>2, <1>3 DEF BufferType
<1>5. /\ SameText(b, c) /\ SameSaved(b, c) /\ SameCache(b, c) /\ SameIndent(b, c)
      /\ c.language = b.language /\ c.syntax = b.syntax /\ c.reparse = NoParse
      /\ c.lost_reparse = lost
  BY <1>3 DEF BufferType, SameText, SameSaved, SameCache, SameIndent
<1>6. QED
  BY <1>2, <1>4, <1>5 DEF c

(* A status of the parser, and a task that computes indents. *)
LEMMA StatusLemma ==
    ASSUME NEW b \in BufferType, NEW status \in {"Idle", "Parsing"}
    PROVE  LET c == [b EXCEPT !.parse_status = status]
           IN  /\ c \in BufferType
               /\ SameText(b, c)
               /\ SameSaved(b, c)
               /\ SameCache(b, c)
               /\ SameIndent(b, c)
               /\ c.language = b.language
               /\ c.syntax = b.syntax
               /\ c.reparse = b.reparse
               /\ c.lost_reparse = b.lost_reparse
               /\ c.parse_status = status
BY DEF BufferType, SameText, SameSaved, SameCache, SameIndent

LEMMA PendingLemma ==
    ASSUME NEW b \in BufferType, NEW pending \in BOOLEAN
    PROVE  LET c == [b EXCEPT !.pending_autoindent = pending]
           IN  /\ c \in BufferType
               /\ SameText(b, c)
               /\ SameSaved(b, c)
               /\ SameCache(b, c)
               /\ SameParse(b, c)
               /\ c.pending_autoindent = pending
               /\ c.autoindent_requests = b.autoindent_requests
               /\ c.wait_for_autoindent_txs = b.wait_for_autoindent_txs
BY DEF BufferType, SameText, SameSaved, SameCache, SameParse

-----------------------------------------------------------------------------
(* Operators that change the text.                                         *)

(* The buffer can still reproduce every text it could before. *)
Grows(b, c) ==
    /\ b.version.n <= c.version.n
    /\ \A i \in 1..b.version.n : c.contents[i] = b.contents[i]
    /\ b.version.n = c.version.n => c.version = b.version

(* All of that is true of a change by one operation. *)
Changes(b, c) ==
    /\ c \in BufferType
    /\ HistoryComplete(c)
    /\ CacheSound(c)
    /\ Grows(b, c)
    /\ SameSaved(b, c)
    /\ SameParse(b, c)
    /\ c.autoindent_requests = b.autoindent_requests
    /\ c.wait_for_autoindent_txs = b.wait_for_autoindent_txs

LEMMA GrowsReflexive ==
    ASSUME NEW b \in BufferType, NEW c, SameText(b, c)
    PROVE  Grows(b, c)
BY DEF Grows, SameText, BufferType, Version, Positive

LEMMA GrowsTransitive ==
    ASSUME NEW b \in BufferType, NEW c \in BufferType, NEW d \in BufferType,
           Grows(b, c), Grows(c, d)
    PROVE  Grows(b, d)
<1>1. b.version.n \in Nat /\ c.version.n \in Nat /\ d.version.n \in Nat
  BY DEF BufferType, Version, Positive
<1>2. b.version.n <= d.version.n
  BY <1>1 DEF Grows
<1>3. \A i \in 1..b.version.n : d.contents[i] = b.contents[i]
  BY <1>1 DEF Grows
<1>4. b.version.n = d.version.n => d.version = b.version
  BY <1>1 DEF Grows
<1>5. QED
  BY <1>2, <1>3, <1>4 DEF Grows

(* A version the buffer has had stays one, with its text. *)
LEMMA KnownStays ==
    ASSUME NEW b \in BufferType, NEW c \in BufferType, Grows(b, c),
           NEW version, Known(b, version)
    PROVE  Known(c, version) /\ TextAt(c, version) = TextAt(b, version)
<1>1. /\ b.version.n \in Nat /\ c.version.n \in Nat
      /\ version.n \in Nat /\ version.text \in 1..b.version.n
  BY SMTT(20) DEF Known, BufferType, Version, Positive
<1>2. TextAt(c, version) = TextAt(b, version)
  BY <1>1 DEF Grows, TextAt
<1>3. version \in Version /\ version.n <= c.version.n /\ version.text <= c.version.n
  BY <1>1 DEF Grows, Known
<1>4. version.n = c.version.n => version = c.version
  BY <1>1 DEF Grows, Known
<1>5. QED
  BY <1>2, <1>3, <1>4 DEF Known

(* The history is complete after one more text was added to it. *)
LEMMA OneMoreText ==
    ASSUME NEW b \in BufferType, HistoryComplete(b), CacheSound(b),
           NEW content \in Int,
           NEW c \in BufferType, SameSaved(b, c), SameCache(b, c),
           c.contents = Append(b.contents, content),
           c.version.n = b.version.n + 1,
           c.version.text <= c.version.n,
           \A i \in 1..Len(c.undo_stack) : c.undo_stack[i].before <= c.version.n
    PROVE  HistoryComplete(c) /\ CacheSound(c) /\ Grows(b, c)
<1>1. b.contents \in Seq(Int) /\ b.version.n \in Nat /\ b.saved_version.text \in Nat
      /\ b.has_unsaved_edits.n \in Nat
  BY DEF BufferType, Version, Positive
<1>2. /\ Len(c.contents) = Len(b.contents) + 1
      /\ \A i \in 1..Len(b.contents) : c.contents[i] = b.contents[i]
  BY <1>1
<1>3. HistoryComplete(c)
  BY <1>1, <1>2 DEF HistoryComplete, SameSaved
<1>4. CacheSound(c)
  BY <1>1 DEF CacheSound, SameCache
<1>5. Grows(b, c)
  BY <1>1, <1>2 DEF Grows, HistoryComplete
<1>6. QED
  BY <1>3, <1>4, <1>5

LEMMA ChangeTextLemma ==
    ASSUME NEW b \in BufferType, NEW content \in Int, HistoryComplete(b), CacheSound(b)
    PROVE  LET c == ChangeText(b, content)
           IN  /\ Changes(b, c)
               /\ SameCache(b, c)
               /\ c.version = [n |-> b.version.n + 1, text |-> b.version.n + 1]
               /\ c.contents = Append(b.contents, content)
               /\ c.undo_stack = b.undo_stack
<1> DEFINE c == ChangeText(b, content)
           version == [n |-> b.version.n + 1, text |-> b.version.n + 1]
           contents == Append(b.contents, content)
<1>1. version \in Version /\ version.n = b.version.n + 1 /\ version.text = b.version.n + 1
  BY DEF BufferType, Version, Positive
<1>2. contents \in Seq(Int)
  BY DEF BufferType
<1>3. c = [b EXCEPT !.version = version, !.contents = contents, !.pending_autoindent = FALSE]
  BY DEF ChangeText, BufferType
<1> HIDE DEF c, version, contents
<1>4. c \in BufferType
  BY <1>1, <1>2, <1>3 DEF BufferType
<1>5. /\ c.version = version /\ c.contents = contents /\ c.undo_stack = b.undo_stack
      /\ SameSaved(b, c) /\ SameCache(b, c) /\ SameParse(b, c)
      /\ c.autoindent_requests = b.autoindent_requests
      /\ c.wait_for_autoindent_txs = b.wait_for_autoindent_txs
  BY <1>3 DEF BufferType, SameSaved, SameCache, SameParse
<1>6. \A i \in 1..Len(c.undo_stack) : c.undo_stack[i].before <= c.version.n
  <2>1. SUFFICES ASSUME NEW i \in 1..Len(b.undo_stack)
                 PROVE  b.undo_stack[i].before <= b.version.n + 1
    BY <1>1, <1>5
  <2>2. b.undo_stack \in Seq(Transaction) /\ b.version.n \in Nat
    BY DEF BufferType, Version, Positive
  <2>3. b.undo_stack[i] \in Transaction /\ b.undo_stack[i].before <= b.version.n
    BY <2>2 DEF HistoryComplete
  <2>4. QED
    BY <2>2, <2>3 DEF Transaction, Positive
<1>7. c.version.text <= c.version.n
  BY <1>1, <1>5 DEF BufferType, Version, Positive
<1>8. HistoryComplete(c) /\ CacheSound(c) /\ Grows(b, c)
  BY <1>1, <1>4, <1>5, <1>6, <1>7, OneMoreText DEF contents
<1>9. QED
  BY <1>4, <1>5, <1>8 DEF Changes, c, version, contents

LEMMA EditTextLemma ==
    ASSUME NEW b \in BufferType, NEW content \in Int, HistoryComplete(b), CacheSound(b)
    PROVE  LET c == EditText(b, content)
           IN  /\ Changes(b, c)
               /\ c.version = [n |-> b.version.n + 1, text |-> b.version.n + 1]
               /\ TextAt(c, c.version) = content
<1> DEFINE a == ChangeText(b, content)
           c == EditText(b, content)
           t == [before |-> b.version.text, after |-> b.version.n + 1]
           stack == Append(b.undo_stack, t)
<1>1. /\ Changes(b, a) /\ SameCache(b, a)
      /\ a.version = [n |-> b.version.n + 1, text |-> b.version.n + 1]
      /\ a.contents = Append(b.contents, content) /\ a.undo_stack = b.undo_stack
  BY ChangeTextLemma
<1>2. /\ a \in BufferType /\ a.version.n = b.version.n + 1 /\ a.version.text = b.version.n + 1
      /\ b.version.n \in Positive /\ b.version.text \in Positive
  BY <1>1 DEF Changes, BufferType, Version
<1>3. t \in Transaction
  BY <1>2 DEF Transaction, Positive
<1>4. t.before <= b.version.n
  BY DEF HistoryComplete
<1>5. c = [a EXCEPT !.undo_stack = stack]
  BY <1>1, <1>2 DEF EditText, BufferType
<1> HIDE DEF a, c, t
<1>6. stack \in Seq(Transaction)
  BY <1>3 DEF BufferType
<1>7. \A i \in 1..Len(stack) : stack[i].before <= b.version.n + 1
  <2>1. SUFFICES ASSUME NEW i \in 1..Len(stack) PROVE stack[i].before <= b.version.n + 1
    OBVIOUS
  <2>2. b.undo_stack \in Seq(Transaction) /\ b.version.n \in Nat
    BY <1>2 DEF BufferType, Positive
  <2>3. stack[i] \in Transaction
    BY <1>6
  <2>4. stack[i].before <= b.version.n
    <3>1. CASE i \in 1..Len(b.undo_stack)
      BY <2>2, <3>1 DEF HistoryComplete
    <3>2. CASE i = Len(b.undo_stack) + 1
      BY <1>4, <2>2, <3>2
    <3>3. QED
      BY <2>2, <3>1, <3>2
  <2>5. QED
    BY SMTT(20), <2>2, <2>3, <2>4 DEF Transaction, Positive
<1> HIDE DEF stack
<1>8. c \in BufferType
  BY <1>2, <1>5, <1>6 DEF BufferType
<1>9. /\ c.version = a.version /\ c.contents = a.contents /\ c.undo_stack = stack
      /\ SameSaved(a, c) /\ SameCache(a, c) /\ SameParse(a, c) /\ SameIndent(a, c)
  BY <1>2, <1>5 DEF BufferType, SameSaved, SameCache, SameParse, SameIndent
<1>10. SameSaved(b, c) /\ SameCache(b, c) /\ SameParse(b, c)
  BY <1>1, <1>9 DEF Changes, SameSaved, SameCache, SameParse
<1>11. c.version.text <= c.version.n
  BY <1>2, <1>9 DEF Positive
<1>12. HistoryComplete(c) /\ CacheSound(c) /\ Grows(b, c)
  BY <1>1, <1>2, <1>7, <1>8, <1>9, <1>10, <1>11, OneMoreText
<1>13. TextAt(c, c.version) = content
  BY SMTT(20), <1>1, <1>2, <1>9 DEF TextAt, HistoryComplete, BufferType, Positive
<1>14. QED
  BY <1>1, <1>8, <1>9, <1>10, <1>12, <1>13 DEF Changes, SameIndent, c

(* The last transaction is taken back, or something else has been edited. *)
LEMMA UndoTextLemma ==
    ASSUME NEW b \in BufferType, HistoryComplete(b), CacheSound(b), b.undo_stack # <<>>
    PROVE  Changes(b, UndoText(b))
<1> DEFINE content == b.version.n + 1
           a == ChangeText(b, content)
           c == UndoText(b)
           t == Last(b.undo_stack)
           stack == Front(b.undo_stack)
           text == IF b.version.text = t.after THEN t.before ELSE b.version.n + 1
           version == [n |-> b.version.n + 1, text |-> text]
<1>1. b.version.n \in Positive /\ b.undo_stack \in Seq(Transaction) /\ content \in Int
  BY DEF BufferType, Version, Positive
<1>2. /\ Changes(b, a) /\ SameCache(b, a)
      /\ a.version = [n |-> b.version.n + 1, text |-> b.version.n + 1]
      /\ a.contents = Append(b.contents, content) /\ a.undo_stack = b.undo_stack
  BY <1>1, ChangeTextLemma
<1>3. t \in Transaction /\ t.before <= b.version.n
  BY <1>1 DEF Last, HistoryComplete
<1>4. version \in Version /\ version.n = b.version.n + 1 /\ version.text <= b.version.n + 1
  BY <1>1, <1>3 DEF Version, Transaction, Positive
<1>5. /\ stack \in Seq(Transaction)
      /\ \A i \in 1..Len(stack) : stack[i].before <= b.version.n + 1
  <2>1. Len(b.undo_stack) >= 1 /\ stack \in Seq(Transaction) /\ Len(stack) = Len(b.undo_stack) - 1
        /\ \A i \in 1..Len(stack) : stack[i] = b.undo_stack[i]
    BY <1>1 DEF Front
  <2>2. \A i \in 1..Len(b.undo_stack) :
           b.undo_stack[i].before \in Nat /\ b.undo_stack[i].before <= b.version.n
    <3>1. \A i \in 1..Len(b.undo_stack) : b.undo_stack[i] \in Transaction
      BY <1>1
    <3>2. QED
      BY <3>1 DEF HistoryComplete, Transaction, Positive
  <2>3. ASSUME NEW i \in 1..Len(stack)
        PROVE  stack[i].before <= b.version.n + 1
    <3> HIDE DEF a, c, t, stack, text, version
    <3>1. i \in 1..Len(b.undo_stack) /\ stack[i] = b.undo_stack[i]
      BY <1>1, <2>1
    <3>2. b.undo_stack[i].before \in Nat /\ b.undo_stack[i].before <= b.version.n
      BY <2>2, <3>1
    <3>3. QED
      BY <1>1, <3>1, <3>2 DEF Positive
  <2>4. QED
    BY <2>1, <2>3
<1>6. c = [a EXCEPT !.undo_stack = stack, !.version = version]
  <2>1. a \in BufferType /\ [a.version EXCEPT !.text = text] = version
        /\ a.version.text = b.version.n + 1
    BY <1>2 DEF Changes
  <2>2. c = [[a EXCEPT !.undo_stack = stack]
                EXCEPT !.version = [a.version EXCEPT !.text = text]]
    BY <1>2, <2>1 DEF UndoText, BufferType
  <2> HIDE DEF a, c, version, stack
  <2>3. QED
    BY <2>1, <2>2 DEF BufferType
<1> HIDE DEF a, c, version, stack
<1>7. c \in BufferType
  BY <1>2, <1>4, <1>5, <1>6 DEF Changes, BufferType
<1>8. /\ c.version = version /\ c.contents = a.contents /\ c.undo_stack = stack
      /\ SameSaved(a, c) /\ SameCache(a, c) /\ SameParse(a, c) /\ SameIndent(a, c)
  BY <1>2, <1>6 DEF Changes, BufferType, SameSaved, SameCache, SameParse, SameIndent
<1>9. SameSaved(b, c) /\ SameCache(b, c) /\ SameParse(b, c)
  BY <1>2, <1>8 DEF Changes, SameSaved, SameCache, SameParse
<1>10. HistoryComplete(c) /\ CacheSound(c) /\ Grows(b, c)
  BY <1>1, <1>2, <1>4, <1>5, <1>7, <1>8, <1>9, OneMoreText
<1>11. QED
  BY <1>2, <1>7, <1>8, <1>9, <1>10 DEF Changes, SameIndent, c

-----------------------------------------------------------------------------
(* Parsing and indenting.                                                  *)

(* What every outcome of a handler keeps. *)
Follows(b, c) ==
    /\ c \in BufferType
    /\ HistoryComplete(c)
    /\ CacheSound(c)
    /\ Grows(b, c)
    /\ SameSaved(b, c)
    /\ c.language = b.language

(* The tree is that of the text, or a task is at work on it. *)
TreeCurrent(b) ==
    \/ b.language = NoLanguage
    \/ b.reparse # NoParse
    \/ b.syntax = [n |-> b.version.n, language |-> b.language]

NobodyWaits(b) == ~b.autoindent_requests /\ ~b.wait_for_autoindent_txs

ServedIn(b) ==
    b.autoindent_requests \/ b.wait_for_autoindent_txs =>
        b.reparse # NoParse \/ b.pending_autoindent

(* The text is the same, unless an indentation was applied. *)
OnlyIndented(b, c) == SameText(b, c) \/ (b.autoindent_requests /\ ~c.autoindent_requests)

Ready(b) ==
    b \in BufferType /\ HistoryComplete(b) /\ CacheSound(b) /\ BusyMeansParsing(b)

LEMMA FollowsSame ==
    ASSUME NEW b, Ready(b), NEW c \in BufferType,
           SameText(b, c), SameSaved(b, c), SameCache(b, c), c.language = b.language
    PROVE  Follows(b, c)
<1>1. Grows(b, c)
  BY GrowsReflexive DEF Ready
<1>2. HistoryComplete(c) /\ CacheSound(c)
  BY DEF Ready, HistoryComplete, CacheSound, SameText, SameSaved, SameCache
<1>3. QED
  BY <1>1, <1>2 DEF Follows

LEMMA FollowsNoticed ==
    ASSUME NEW b \in BufferType, NEW c, Follows(b, c), NEW was_dirty \in BOOLEAN
    PROVE  LET d == NoticeDirty(c, was_dirty)
           IN  Follows(b, d) /\ SameText(c, d) /\ SameParse(c, d) /\ SameIndent(c, d)
<1> DEFINE d == NoticeDirty(c, was_dirty)
<1>1. c \in BufferType /\ CacheSound(c) /\ HistoryComplete(c) /\ Grows(b, c) /\ SameSaved(b, c)
      /\ c.language = b.language
  BY DEF Follows
<1>2. /\ d \in BufferType /\ SameText(c, d) /\ SameSaved(c, d) /\ SameParse(c, d)
      /\ SameIndent(c, d) /\ CacheSound(d)
  BY <1>1, NoticeDirtyLemma
<1> HIDE DEF d
<1>3. HistoryComplete(d)
  BY <1>1, <1>2 DEF HistoryComplete, SameText, SameSaved
<1>4. Grows(b, d)
  BY <1>1, <1>2, GrowsReflexive, GrowsTransitive
<1>5. SameSaved(b, d) /\ d.language = b.language
  BY <1>1, <1>2 DEF SameSaved, SameParse
<1>6. QED
  BY <1>2, <1>3, <1>4, <1>5 DEF Follows, d

LEMMA FollowsTransitive ==
    ASSUME NEW b \in BufferType, NEW c, NEW d, Follows(b, c), Follows(c, d)
    PROVE  Follows(b, d)
<1>1. Grows(b, d)
  BY GrowsTransitive DEF Follows
<1>2. QED
  BY <1>1 DEF Follows, SameSaved

LEMMA ChangesFollow ==
    ASSUME NEW b, NEW c, Ready(b), Changes(b, c)
    PROVE  Follows(b, c) /\ Ready(c)
BY DEF Changes, Follows, Ready, SameParse, BusyMeansParsing

LEMMA TypedLemma ==
    ASSUME NEW b, Ready(b)
    PROVE  Changes(b, Typed(b)) /\ Follows(b, Typed(b)) /\ Ready(Typed(b))
<1>1. b.version.n + 1 \in Int
  BY DEF Ready, BufferType, Version, Positive
<1>2. Changes(b, Typed(b))
  BY <1>1, EditTextLemma DEF Ready, Typed
<1>3. QED
  BY <1>2, ChangesFollow

(* reparse of a buffer without requests. *)
LEMMA ReparseOnlyLemma ==
    ASSUME NEW b, Ready(b), NEW c \in ReparseOnly(b)
    PROVE  /\ Follows(b, c)
           /\ SameText(b, c)
           /\ BusyMeansParsing(c)
           /\ IdleParsed(c)
           /\ TreeCurrent(c)
           /\ NobodyWaits(b) => NobodyWaits(c)
<1>1. b \in BufferType
  BY DEF Ready
<1>2. CASE CannotParse(b)
  <2>1. c = b
    BY <1>2 DEF ReparseOnly
  <2>2. SameText(b, b) /\ SameSaved(b, b) /\ SameCache(b, b)
    BY DEF SameText, SameSaved, SameCache
  <2>3. Follows(b, b)
    BY <1>1, <2>2, FollowsSame
  <2>4. BusyMeansParsing(b) /\ IdleParsed(b) /\ TreeCurrent(b)
    BY <1>2 DEF CannotParse, Ready, BusyMeansParsing, IdleParsed, TreeCurrent
  <2>5. QED
    BY <2>1, <2>2, <2>3, <2>4
<1>3. CASE ~CannotParse(b) /\ c = SpawnParse(b)
  <2>1. /\ c \in BufferType /\ SameText(b, c) /\ SameSaved(b, c) /\ SameCache(b, c)
        /\ SameIndent(b, c) /\ c.language = b.language
        /\ c.reparse # NoParse /\ c.parse_status = "Parsing"
    BY <1>1, <1>3, SpawnParseLemma
  <2>2. Follows(b, c)
    BY <2>1, FollowsSame
  <2>3. QED
    BY <2>1, <2>2 DEF BusyMeansParsing, IdleParsed, TreeCurrent, NobodyWaits, SameIndent
<1>4. CASE ~CannotParse(b) /\ c = [Told(Parsed(b)) EXCEPT !.parse_status = "Idle"]
  <2> DEFINE p == Parsed(b)
             t == Told(p)
  <2>1. /\ p \in BufferType /\ SameText(b, p) /\ SameSaved(b, p) /\ SameCache(b, p)
        /\ p.syntax = [n |-> b.version.n, language |-> b.language]
        /\ p.language = b.language /\ p.reparse = b.reparse
    BY <1>1, ParsedLemma
  <2>2. /\ t \in BufferType /\ SameText(p, t) /\ SameSaved(p, t) /\ SameCache(p, t)
        /\ SameParse(p, t) /\ NobodyWaits(t)
    BY <2>1, ToldLemma DEF NobodyWaits
  <2>3. /\ c \in BufferType /\ SameText(t, c) /\ SameSaved(t, c) /\ SameCache(t, c)
        /\ SameIndent(t, c) /\ c.language = t.language /\ c.syntax = t.syntax
        /\ c.reparse = t.reparse
    BY <1>4, <2>2, StatusLemma
  <2> HIDE DEF p, t
  <2>4. SameText(b, c) /\ SameSaved(b, c) /\ SameCache(b, c) /\ c.language = b.language
    BY <2>1, <2>2, <2>3 DEF SameText, SameSaved, SameCache, SameParse
  <2>5. Follows(b, c)
    BY <2>3, <2>4, FollowsSame
  <2>6. c.syntax = [n |-> c.version.n, language |-> c.language] /\ c.reparse = NoParse
    BY <1>4, <2>1, <2>2, <2>3, <2>4 DEF SameParse, SameText, CannotParse
  <2>7. NobodyWaits(c)
    BY <2>2, <2>3 DEF NobodyWaits, SameIndent
  <2>8. QED
    BY <2>4, <2>5, <2>6, <2>7 DEF BusyMeansParsing, IdleParsed, TreeCurrent
<1>5. QED
  BY <1>2, <1>3, <1>4 DEF ReparseOnly

(* apply_autoindents leaves no request behind. *)
LEMMA ApplyAutoindentsLemma ==
    ASSUME NEW b, Ready(b), NEW c \in ApplyAutoindents(b)
    PROVE  /\ Follows(b, c)
           /\ BusyMeansParsing(c)
           /\ IdleParsed(b) => IdleParsed(c)
           /\ TreeCurrent(b) => TreeCurrent(c)
           /\ NobodyWaits(c)
<1> DEFINE t == Told(b)
<1>1. /\ t \in BufferType /\ SameText(b, t) /\ SameSaved(b, t) /\ SameCache(b, t)
      /\ SameParse(b, t) /\ NobodyWaits(t)
  BY ToldLemma DEF NobodyWaits, Ready
<1>2. Follows(b, t) /\ Ready(t)
  <2>1. Follows(b, t)
    BY <1>1, FollowsSame DEF SameParse
  <2>2. QED
    BY <1>1, <2>1 DEF Follows, Ready, BusyMeansParsing, SameParse
<1>3. CASE c = t
  BY <1>1, <1>2, <1>3 DEF Ready, IdleParsed, TreeCurrent, SameText, SameParse
<1>4. CASE \E d \in ReparseOnly(Typed(t)) : c = NoticeDirty(d, IsDirty(t))
  <2>1. PICK d \in ReparseOnly(Typed(t)) : c = NoticeDirty(d, IsDirty(t))
    BY <1>4
  <2> DEFINE e == Typed(t)
  <2>2. Changes(t, e) /\ Follows(t, e) /\ Ready(e)
    BY <1>2, TypedLemma
  <2>3. NobodyWaits(e)
    BY <1>1, <2>2 DEF Changes, NobodyWaits
  <2>4. /\ Follows(e, d) /\ BusyMeansParsing(d) /\ IdleParsed(d) /\ TreeCurrent(d)
        /\ NobodyWaits(d)
    BY <2>2, <2>3, ReparseOnlyLemma
  <2>5. IsDirty(t) \in BOOLEAN
    BY DEF IsDirty
  <2> HIDE DEF t, e
  <2>6. Follows(b, d)
    <3>1. b \in BufferType /\ t \in BufferType
      BY <1>1 DEF Ready
    <3>2. Follows(t, d)
      BY <2>2, <2>4, <3>1, FollowsTransitive
    <3>3. QED
      BY <1>2, <3>1, <3>2, FollowsTransitive
  <2>7. Follows(b, c) /\ SameText(d, c) /\ SameParse(d, c) /\ SameIndent(d, c)
    BY <2>1, <2>5, <2>6, FollowsNoticed DEF Ready
  <2>8. QED
    BY <2>4, <2>7 DEF BusyMeansParsing, IdleParsed, TreeCurrent, NobodyWaits, SameText,
       SameParse, SameIndent
<1>5. QED
  BY <1>3, <1>4 DEF ApplyAutoindents

(* request_autoindent: whoever waits is told, or a task is under way. *)
LEMMA RequestAutoindentLemma ==
    ASSUME NEW b, Ready(b), NEW may_block \in BOOLEAN, NEW c \in RequestAutoindent(b, may_block)
    PROVE  /\ Follows(b, c)
           /\ BusyMeansParsing(c)
           /\ IdleParsed(b) => IdleParsed(c)
           /\ TreeCurrent(b) => TreeCurrent(c)
           /\ c.pending_autoindent \/ NobodyWaits(c)
           /\ OnlyIndented(b, c)
           /\ ~may_block => SameText(b, c) /\ SameParse(b, c)
<1>1. b \in BufferType
  BY DEF Ready
<1>2. CASE c = Told(b)
  <2>1. /\ c \in BufferType /\ SameText(b, c) /\ SameSaved(b, c) /\ SameCache(b, c)
        /\ SameParse(b, c) /\ NobodyWaits(c)
    BY <1>1, <1>2, ToldLemma DEF NobodyWaits
  <2>2. Follows(b, c)
    BY <2>1, FollowsSame DEF SameParse
  <2>3. QED
    BY <2>1, <2>2 DEF Ready, BusyMeansParsing, IdleParsed, TreeCurrent, OnlyIndented,
       SameText, SameParse
<1>3. CASE c = [b EXCEPT !.pending_autoindent = TRUE]
  <2>1. /\ c \in BufferType /\ SameText(b, c) /\ SameSaved(b, c) /\ SameCache(b, c)
        /\ SameParse(b, c) /\ c.pending_autoindent
    BY <1>1, <1>3, PendingLemma
  <2>2. Follows(b, c)
    BY <2>1, FollowsSame DEF SameParse
  <2>3. QED
    BY <2>1, <2>2 DEF Ready, BusyMeansParsing, IdleParsed, TreeCurrent, OnlyIndented,
       SameText, SameParse
<1>4. CASE b.autoindent_requests /\ may_block /\ c \in ApplyAutoindents(b)
  BY <1>4, ApplyAutoindentsLemma DEF NobodyWaits, OnlyIndented
<1>5. QED
  BY <1>2, <1>3, <1>4 DEF RequestAutoindent

(* reparse, as an edit calls it: the tree is current or being made, and    *)
(* with a language nobody waits in vain.                                   *)
LEMMA ReparseLemma ==
    ASSUME NEW b, Ready(b), NEW c \in Reparse(b)
    PROVE  /\ Follows(b, c)
           /\ BusyMeansParsing(c)
           /\ IdleParsed(c)
           /\ b.language # NoLanguage \/ ServedIn(b) => ServedIn(c)
           /\ OnlyIndented(b, c)
<1>1. b \in BufferType
  BY DEF Ready
<1>2. CASE CannotParse(b)
  <2>1. c = b
    BY <1>2 DEF Reparse
  <2>2. SameText(b, b) /\ SameSaved(b, b) /\ SameCache(b, b)
    BY DEF SameText, SameSaved, SameCache
  <2>3. Follows(b, b)
    BY <1>1, <2>2, FollowsSame
  <2>4. BusyMeansParsing(b) /\ IdleParsed(b) /\ (b.language # NoLanguage => ServedIn(b))
    BY <1>2 DEF CannotParse, Ready, BusyMeansParsing, IdleParsed, ServedIn
  <2>5. QED
    BY <2>1, <2>2, <2>3, <2>4 DEF OnlyIndented
<1>3. CASE ~CannotParse(b) /\ c = SpawnParse(b)
  <2>1. /\ c \in BufferType /\ SameText(b, c) /\ SameSaved(b, c) /\ SameCache(b, c)
        /\ SameIndent(b, c) /\ c.language = b.language
        /\ c.reparse # NoParse /\ c.parse_status = "Parsing"
    BY <1>1, <1>3, SpawnParseLemma
  <2>2. Follows(b, c)
    BY <2>1, FollowsSame
  <2>3. QED
    BY <2>1, <2>2 DEF BusyMeansParsing, IdleParsed, ServedIn, OnlyIndented
<1>4. ASSUME ~CannotParse(b),
             NEW d \in RequestAutoindent([Parsed(b) EXCEPT !.parse_status = "Parsing"], TRUE),
             c = EndOfReparse(d)
      PROVE  /\ Follows(b, c) /\ BusyMeansParsing(c) /\ IdleParsed(c) /\ ServedIn(c)
             /\ OnlyIndented(b, c)
  <2> DEFINE p == Parsed(b)
             q == [p EXCEPT !.parse_status = "Parsing"]
  <2>1. /\ p \in BufferType /\ SameText(b, p) /\ SameSaved(b, p) /\ SameCache(b, p)
        /\ SameIndent(b, p) /\ p.syntax = [n |-> b.version.n, language |-> b.language]
        /\ p.language = b.language /\ p.reparse = b.reparse
    BY <1>1, ParsedLemma
  <2>2. /\ q \in BufferType /\ SameText(p, q) /\ SameSaved(p, q) /\ SameCache(p, q)
        /\ SameIndent(p, q) /\ q.language = p.language /\ q.syntax = p.syntax
        /\ q.parse_status = "Parsing"
    BY <2>1, StatusLemma
  <2> HIDE DEF p, q
  <2>3. SameText(b, q) /\ SameSaved(b, q) /\ SameCache(b, q) /\ q.language = b.language
        /\ SameIndent(b, q)
    BY <2>1, <2>2 DEF SameText, SameSaved, SameCache, SameIndent
  <2>4. Follows(b, q)
    BY <2>2, <2>3, FollowsSame
  <2>5. Ready(q) /\ TreeCurrent(q)
    BY <2>1, <2>2, <2>3, <2>4 DEF Ready, Follows, BusyMeansParsing, TreeCurrent, SameText
  <2>6. /\ Follows(q, d) /\ TreeCurrent(d) /\ (d.pending_autoindent \/ NobodyWaits(d))
        /\ OnlyIndented(q, d)
    <3>1. d \in RequestAutoindent(q, TRUE)
      BY <1>4 DEF p, q
    <3>2. QED
      BY <2>5, <3>1, RequestAutoindentLemma
  <2>7. /\ d \in BufferType /\ HistoryComplete(d) /\ CacheSound(d) /\ Follows(b, d)
    BY <1>1, <2>4, <2>6, FollowsTransitive DEF Follows
  <2>8. /\ c \in BufferType /\ SameText(d, c) /\ SameSaved(d, c) /\ SameCache(d, c)
        /\ SameIndent(d, c) /\ c.language = d.language /\ c.syntax = d.syntax
        /\ c.reparse = NoParse /\ (d.reparse # NoParse => c.lost_reparse)
    BY <1>4, <2>7, EndOfReparseLemma
  <2>9. Follows(b, c)
    <3>1. HistoryComplete(c) /\ CacheSound(c)
      BY <2>7, <2>8 DEF HistoryComplete, CacheSound, SameText, SameSaved, SameCache
    <3>2. Grows(b, c)
      BY <1>1, <2>7, <2>8, GrowsReflexive, GrowsTransitive DEF Follows
    <3>3. QED
      BY <2>7, <2>8, <3>1, <3>2 DEF Follows, SameSaved
  <2>10. BusyMeansParsing(c) /\ IdleParsed(c)
    BY <2>6, <2>8 DEF BusyMeansParsing, IdleParsed, TreeCurrent, SameText
  <2>11. ServedIn(c)
    BY <2>6, <2>8 DEF ServedIn, NobodyWaits, SameIndent
  <2>12. OnlyIndented(b, c)
    BY <2>3, <2>6, <2>8 DEF OnlyIndented, SameText, SameIndent
  <2>13. QED
    BY <2>9, <2>10, <2>11, <2>12
<1>5. QED
  BY <1>2, <1>3, <1>4 DEF Reparse

(* did_edit adds that the buffer notices whether it is dirty. *)
LEMMA DidEditLemma ==
    ASSUME NEW b, Ready(b), NEW was_dirty \in BOOLEAN, NEW c \in DidEdit(b, was_dirty)
    PROVE  /\ Follows(b, c)
           /\ BusyMeansParsing(c)
           /\ IdleParsed(c)
           /\ b.language # NoLanguage => ServedIn(c)
           /\ OnlyIndented(b, c)
<1>1. PICK d \in Reparse(b) : c = NoticeDirty(d, was_dirty)
  BY DEF DidEdit
<1>2. /\ Follows(b, d) /\ BusyMeansParsing(d) /\ IdleParsed(d) /\ OnlyIndented(b, d)
      /\ (b.language # NoLanguage => ServedIn(d))
  BY ReparseLemma
<1>3. Follows(b, c) /\ SameText(d, c) /\ SameParse(d, c) /\ SameIndent(d, c)
  BY <1>1, <1>2, FollowsNoticed DEF Ready
<1>4. QED
  BY <1>2, <1>3 DEF BusyMeansParsing, IdleParsed, ServedIn, OnlyIndented, SameText, SameParse,
     SameIndent

-----------------------------------------------------------------------------
(* Handlers that do not touch what is known of the file.                   *)

LEMMA RequestsLemma ==
    ASSUME NEW b, Ready(b), NEW requests \in BOOLEAN
    PROVE  LET c == [b EXCEPT !.autoindent_requests = requests]
           IN  Follows(b, c) /\ Ready(c) /\ SameText(b, c) /\ SameParse(b, c)
<1> DEFINE c == [b EXCEPT !.autoindent_requests = requests]
<1>1. /\ c \in BufferType /\ SameText(b, c) /\ SameSaved(b, c) /\ SameCache(b, c)
      /\ SameParse(b, c)
  BY DEF Ready, BufferType, SameText, SameSaved, SameCache, SameParse
<1> HIDE DEF c
<1>2. Follows(b, c)
  BY <1>1, FollowsSame DEF SameParse
<1>3. QED
  BY <1>1, <1>2 DEF Follows, Ready, BusyMeansParsing, SameParse, c

LEMMA AskedFollows ==
    ASSUME NEW b, Ready(b)
    PROVE  Follows(b, Asked(b)) /\ Ready(Asked(b)) /\ SameParse(b, Asked(b))
<1> DEFINE c == Asked(b)
<1>1. /\ c \in BufferType /\ SameText(b, c) /\ SameSaved(b, c) /\ SameParse(b, c)
      /\ CacheSound(c)
  BY AskedLemma DEF Ready
<1> HIDE DEF c
<1>2. Grows(b, c)
  BY <1>1, GrowsReflexive DEF Ready
<1>3. HistoryComplete(c)
  BY <1>1 DEF Ready, HistoryComplete, SameText, SameSaved
<1>4. QED
  BY <1>1, <1>2, <1>3 DEF Follows, Ready, BusyMeansParsing, SameParse, c

(* What such a handler does. *)
BufferStep ==
    /\ buffer' \in BufferType
    /\ HistoryComplete(buffer')
    /\ CacheSound(buffer')
    /\ BusyMeansParsing(buffer')
    /\ IdleParsed(buffer')
    /\ Grows(buffer, buffer')
    /\ SameSaved(buffer, buffer')
    /\ UNCHANGED fileVars

KeepsServed == ServedIn(buffer) /\ buffer.language # NoLanguage => ServedIn(buffer')

LEMMA IsDirtyBoolean ==
    ASSUME NEW b PROVE IsDirty(b) \in BOOLEAN
BY DEF IsDirty

LEMMA InvReady ==
    IInv => Ready(buffer) /\ buffer \in BufferType /\ IdleParsed(buffer)
BY DEF IInv, TypeOK, Sound, Ready

(* An edit of some kind, then did_edit. *)
LEMMA EditStep ==
    ASSUME IInv, NEW b, Ready(b), Follows(buffer, b), UNCHANGED fileVars,
           buffer' \in DidEdit(b, IsDirty(buffer))
    PROVE  BufferStep /\ KeepsServed
<1>1. /\ Follows(b, buffer') /\ BusyMeansParsing(buffer') /\ IdleParsed(buffer')
      /\ (b.language # NoLanguage => ServedIn(buffer'))
  BY IsDirtyBoolean, DidEditLemma
<1>2. Follows(buffer, buffer')
  BY <1>1, InvReady, FollowsTransitive
<1>3. b.language = buffer.language
  BY DEF Follows
<1>4. QED
  BY <1>1, <1>2, <1>3 DEF BufferStep, KeepsServed, Follows

LEMMA EditBuffer ==
    ASSUME IInv, NEW autoindent \in BOOLEAN, Edit(autoindent)
    PROVE  BufferStep /\ KeepsServed
<1> DEFINE a == Asked(buffer)
           t == Typed(a)
           requests == t.autoindent_requests \/ (autoindent /\ t.language # NoLanguage)
           b == [t EXCEPT !.autoindent_requests = requests]
<1>1. Ready(buffer) /\ buffer \in BufferType
  BY InvReady
<1>2. Follows(buffer, a) /\ Ready(a)
  BY <1>1, AskedFollows
<1>3. Follows(a, t) /\ Ready(t)
  BY <1>2, TypedLemma
<1>4. UNCHANGED fileVars /\ buffer' \in DidEdit(b, IsDirty(buffer))
  BY <1>3 DEF Edit, Outcome, Ready, BufferType
<1>5. requests \in BOOLEAN
  BY <1>3 DEF Ready, BufferType
<1> HIDE DEF a, t, requests
<1>6. Follows(t, b) /\ Ready(b)
  BY <1>3, <1>5, RequestsLemma
<1> HIDE DEF b
<1>7. Follows(buffer, b)
  BY <1>1, <1>2, <1>3, <1>6, FollowsTransitive DEF Follows
<1>8. QED
  BY <1>4, <1>6, <1>7, EditStep

LEMMA SetTextBuffer ==
    ASSUME IInv, SetText
    PROVE  BufferStep /\ KeepsServed
<1> DEFINE a == Asked(buffer)
           t == Typed(a)
           b == [t EXCEPT !.autoindent_requests = FALSE]
<1>1. Ready(buffer) /\ buffer \in BufferType
  BY InvReady
<1>2. Follows(buffer, a) /\ Ready(a)
  BY <1>1, AskedFollows
<1>3. Follows(a, t) /\ Ready(t)
  BY <1>2, TypedLemma
<1>4. UNCHANGED fileVars /\ buffer' \in DidEdit(b, IsDirty(buffer))
  BY DEF SetText, Outcome
<1> HIDE DEF a, t
<1>5. Follows(t, b) /\ Ready(b)
  BY <1>3, RequestsLemma
<1> HIDE DEF b
<1>6. Follows(buffer, b)
  BY <1>1, <1>2, <1>3, <1>5, FollowsTransitive DEF Follows
<1>7. QED
  BY <1>4, <1>5, <1>6, EditStep

LEMMA UndoBuffer ==
    ASSUME IInv, Undo
    PROVE  BufferStep /\ KeepsServed
<1> DEFINE a == Asked(buffer)
           b == UndoText(a)
<1>1. Ready(buffer) /\ buffer \in BufferType
  BY InvReady
<1>2. Follows(buffer, a) /\ Ready(a) /\ SameText(buffer, a)
  BY <1>1, AskedFollows, AskedLemma
<1>3. a.undo_stack # <<>> /\ UNCHANGED fileVars /\ buffer' \in DidEdit(b, IsDirty(buffer))
  BY <1>2 DEF Undo, Outcome, SameText
<1> HIDE DEF a
<1>4. Changes(a, b)
  BY <1>2, <1>3, UndoTextLemma DEF Ready
<1> HIDE DEF b
<1>5. Follows(a, b) /\ Ready(b)
  BY <1>2, <1>4, ChangesFollow
<1>6. Follows(buffer, b)
  BY <1>1, <1>2, <1>5, FollowsTransitive
<1>7. QED
  BY <1>3, <1>5, <1>6, EditStep

LEMMA ApplyEditsBuffer ==
    ASSUME IInv, ApplyEdits
    PROVE  BufferStep /\ KeepsServed
<1> DEFINE a == Asked(buffer)
           content == buffer.version.n + 1
           b == ChangeText(a, content)
<1>1. Ready(buffer) /\ buffer \in BufferType
  BY InvReady
<1>2. Follows(buffer, a) /\ Ready(a)
  BY <1>1, AskedFollows
<1>3. content \in Int
  BY <1>1 DEF BufferType, Version, Positive
<1>4. UNCHANGED fileVars /\ buffer' \in DidEdit(b, IsDirty(buffer))
  BY DEF ApplyEdits, Outcome
<1> HIDE DEF a, content
<1>5. Changes(a, b)
  BY <1>2, <1>3, ChangeTextLemma DEF Ready
<1> HIDE DEF b
<1>6. Follows(a, b) /\ Ready(b)
  BY <1>2, <1>5, ChangesFollow
<1>7. Follows(buffer, b)
  BY <1>1, <1>2, <1>6, FollowsTransitive
<1>8. QED
  BY <1>4, <1>6, <1>7, EditStep

(* Text, tree and file are left alone. *)
LEMMA QuietStep ==
    ASSUME IInv, buffer' \in BufferType, SameText(buffer, buffer'), SameSaved(buffer, buffer'),
           SameParse(buffer, buffer'), CacheSound(buffer'), UNCHANGED fileVars
    PROVE  BufferStep
<1>1. Ready(buffer) /\ buffer \in BufferType /\ IdleParsed(buffer)
  BY InvReady
<1>2. Grows(buffer, buffer')
  BY <1>1, GrowsReflexive
<1>3. HistoryComplete(buffer') /\ BusyMeansParsing(buffer') /\ IdleParsed(buffer')
  BY <1>1 DEF Ready, HistoryComplete, BusyMeansParsing, IdleParsed, SameText, SameSaved,
     SameParse
<1>4. QED
  BY <1>2, <1>3 DEF BufferStep

LEMMA ApplySelectionsBuffer ==
    ASSUME IInv, ApplySelections
    PROVE  BufferStep
<1> DEFINE a == Asked(buffer)
<1>1. Ready(buffer) /\ buffer \in BufferType
  BY InvReady
<1>2. /\ a \in BufferType /\ SameText(buffer, a) /\ SameSaved(buffer, a)
      /\ SameParse(buffer, a) /\ CacheSound(a)
  BY <1>1, AskedLemma DEF Ready
<1>3. UNCHANGED fileVars /\ buffer' = [a EXCEPT !.pending_autoindent = FALSE]
  BY DEF ApplySelections, Outcome
<1> HIDE DEF a
<1>4. /\ buffer' \in BufferType /\ SameText(a, buffer') /\ SameSaved(a, buffer')
      /\ SameCache(a, buffer') /\ SameParse(a, buffer')
  BY <1>2, <1>3, PendingLemma
<1>5. /\ SameText(buffer, buffer') /\ SameSaved(buffer, buffer') /\ SameParse(buffer, buffer')
      /\ CacheSound(buffer')
  BY <1>2, <1>4 DEF SameText, SameSaved, SameCache, SameParse, CacheSound
<1>6. QED
  BY <1>3, <1>4, <1>5, QuietStep

LEMMA WaitForAutoindentBuffer ==
    ASSUME IInv, WaitForAutoindent
    PROVE  BufferStep /\ KeepsServed
<1>1. Ready(buffer) /\ buffer \in BufferType
  BY InvReady
<1>2. /\ buffer.autoindent_requests /\ UNCHANGED fileVars
      /\ buffer' = [buffer EXCEPT !.wait_for_autoindent_txs = TRUE]
  BY DEF WaitForAutoindent, Outcome
<1>3. /\ buffer' \in BufferType /\ SameText(buffer, buffer') /\ SameSaved(buffer, buffer')
      /\ SameCache(buffer, buffer') /\ SameParse(buffer, buffer')
      /\ buffer'.pending_autoindent = buffer.pending_autoindent
  BY <1>1, <1>2 DEF BufferType, SameText, SameSaved, SameCache, SameParse
<1>4. CacheSound(buffer')
  BY <1>1, <1>3 DEF Ready, CacheSound, SameText, SameSaved, SameCache
<1>5. KeepsServed
  BY <1>2, <1>3 DEF KeepsServed, ServedIn, SameParse
<1>6. QED
  BY <1>2, <1>3, <1>4, <1>5, QuietStep

LEMMA AutoindentRangesBuffer ==
    ASSUME IInv, AutoindentRanges
    PROVE  BufferStep /\ KeepsServed
<1> DEFINE b == [buffer EXCEPT !.autoindent_requests = TRUE]
<1>1. Ready(buffer) /\ buffer \in BufferType /\ IdleParsed(buffer)
  BY InvReady
<1>2. Follows(buffer, b) /\ Ready(b) /\ SameText(buffer, b) /\ SameParse(buffer, b)
  BY <1>1, RequestsLemma
<1>3. UNCHANGED fileVars /\ buffer' \in RequestAutoindent(b, TRUE)
  BY DEF AutoindentRanges, Outcome
<1> HIDE DEF b
<1>4. IdleParsed(b)
  BY <1>1, <1>2 DEF IdleParsed, SameText, SameParse
<1>5. /\ Follows(b, buffer') /\ BusyMeansParsing(buffer') /\ IdleParsed(buffer')
      /\ (buffer'.pending_autoindent \/ NobodyWaits(buffer'))
  BY <1>2, <1>3, <1>4, RequestAutoindentLemma
<1>6. Follows(buffer, buffer')
  BY <1>1, <1>2, <1>5, FollowsTransitive
<1>7. QED
  BY <1>3, <1>5, <1>6 DEF BufferStep, Follows, KeepsServed, ServedIn, NobodyWaits

LEMMA SetLanguageBuffer ==
    ASSUME IInv, NEW language \in Languages \cup {NoLanguage}, SetLanguage(language)
    PROVE  BufferStep /\ KeepsServed
<1> DEFINE b == [buffer EXCEPT !.language = language, !.syntax = NoParse]
<1>1. Ready(buffer) /\ buffer \in BufferType
  BY InvReady
<1>2. UNCHANGED fileVars /\ buffer' \in Reparse(b)
  BY DEF SetLanguage, Outcome
<1>3. NoParse \in Parse /\ language \in AnyLanguage
  BY DEF NoParse, Parse, AnyLanguage
<1>4. b \in BufferType
  BY <1>1, <1>3 DEF BufferType
<1>5. /\ SameText(buffer, b) /\ SameSaved(buffer, b) /\ SameCache(buffer, b)
      /\ SameIndent(buffer, b) /\ b.reparse = buffer.reparse
      /\ b.parse_status = buffer.parse_status
  BY <1>1 DEF BufferType, SameText, SameSaved, SameCache, SameIndent
<1> HIDE DEF b
<1>6. Ready(b)
  BY <1>1, <1>4, <1>5 DEF Ready, HistoryComplete, CacheSound, BusyMeansParsing, SameText,
     SameSaved, SameCache
<1>7. Grows(buffer, b)
  BY <1>1, <1>5, GrowsReflexive
<1>8. /\ Follows(b, buffer') /\ BusyMeansParsing(buffer') /\ IdleParsed(buffer')
      /\ (ServedIn(b) => ServedIn(buffer'))
  BY <1>2, <1>6, ReparseLemma
<1>9. Grows(buffer, buffer') /\ SameSaved(buffer, buffer')
  BY <1>1, <1>4, <1>5, <1>7, <1>8, GrowsTransitive DEF Follows, SameSaved
<1>10. ServedIn(buffer) => ServedIn(b)
  BY <1>5 DEF ServedIn, SameIndent
<1>11. QED
  BY <1>2, <1>8, <1>9, <1>10 DEF BufferStep, Follows, KeepsServed

LEMMA IndentsComputedBuffer ==
    ASSUME IInv, IndentsComputed
    PROVE  BufferStep /\ KeepsServed
<1> DEFINE b == [buffer EXCEPT !.pending_autoindent = FALSE]
<1>1. Ready(buffer) /\ buffer \in BufferType /\ IdleParsed(buffer)
  BY InvReady
<1>2. UNCHANGED fileVars /\ buffer' \in ApplyAutoindents(b)
  BY DEF IndentsComputed, Outcome
<1>3. /\ b \in BufferType /\ SameText(buffer, b) /\ SameSaved(buffer, b)
      /\ SameCache(buffer, b) /\ SameParse(buffer, b)
  BY <1>1, PendingLemma
<1> HIDE DEF b
<1>4. Follows(buffer, b)
  BY <1>1, <1>3, FollowsSame DEF SameParse
<1>5. Ready(b) /\ IdleParsed(b)
  BY <1>1, <1>3, <1>4 DEF Ready, Follows, BusyMeansParsing, IdleParsed, SameText, SameParse
<1>6. /\ Follows(b, buffer') /\ BusyMeansParsing(buffer') /\ IdleParsed(buffer')
      /\ NobodyWaits(buffer')
  BY <1>2, <1>5, ApplyAutoindentsLemma
<1>7. Follows(buffer, buffer')
  BY <1>1, <1>4, <1>6, FollowsTransitive
<1>8. QED
  BY <1>2, <1>6, <1>7 DEF BufferStep, Follows, KeepsServed, ServedIn, NobodyWaits

(* The background parse ends. *)
LEMMA ParseFinishesBuffer ==
    ASSUME IInv, ParseFinishes
    PROVE  BufferStep /\ KeepsServed
<1> DEFINE task == buffer.reparse
           tree == IF buffer.language = NoLanguage THEN NoParse ELSE task
           b == [buffer EXCEPT !.reparse = NoParse, !.lost_reparse = FALSE, !.syntax = tree]
           same == task.n = buffer.version.n /\ task.language = buffer.language
<1>1. Ready(buffer) /\ buffer \in BufferType
  BY InvReady
<1>2. NoParse \in Parse /\ tree \in Parse /\ task \in Parse
  BY <1>1 DEF NoParse, Parse, AnyLanguage, BufferType
<1>3. b \in BufferType
  BY <1>1, <1>2 DEF BufferType
<1>4. /\ SameText(buffer, b) /\ SameSaved(buffer, b) /\ SameCache(buffer, b)
      /\ b.language = buffer.language /\ b.reparse = NoParse /\ b.syntax = tree
  BY <1>1 DEF BufferType, SameText, SameSaved, SameCache
<1>5. /\ UNCHANGED fileVars
      /\ \/ /\ same \/ buffer.language = NoLanguage
            /\ \E c \in RequestAutoindent(b, FALSE) : buffer' = [c EXCEPT !.parse_status = "Idle"]
         \/ buffer' = SpawnParse(b)
  BY <1>4 DEF ParseFinishes, Outcome
<1>6. same => task = [n |-> buffer.version.n, language |-> buffer.language]
  BY <1>2 DEF Parse
<1> HIDE DEF b, task
<1>7. Follows(buffer, b)
  BY <1>1, <1>3, <1>4, FollowsSame
<1>8. Ready(b)
  BY <1>4, <1>7 DEF Ready, Follows, BusyMeansParsing
<1>9. CASE buffer' = SpawnParse(b)
  <2>1. /\ buffer' \in BufferType /\ SameText(b, buffer') /\ SameSaved(b, buffer')
        /\ SameCache(b, buffer') /\ buffer'.language = b.language
        /\ buffer'.reparse # NoParse /\ buffer'.parse_status = "Parsing"
    BY <1>3, <1>9, SpawnParseLemma
  <2>2. Follows(b, buffer')
    BY <1>8, <2>1, FollowsSame
  <2>3. Follows(buffer, buffer')
    BY <1>1, <1>7, <2>2, FollowsTransitive
  <2>4. QED
    BY <1>5, <2>1, <2>3 DEF BufferStep, Follows, KeepsServed, ServedIn, BusyMeansParsing,
       IdleParsed
<1>10. ASSUME same \/ buffer.language = NoLanguage,
              NEW c \in RequestAutoindent(b, FALSE), buffer' = [c EXCEPT !.parse_status = "Idle"]
       PROVE  BufferStep /\ KeepsServed
  <2>1. /\ Follows(b, c) /\ SameText(b, c) /\ SameParse(b, c)
        /\ (c.pending_autoindent \/ NobodyWaits(c))
    BY <1>8, <1>10, RequestAutoindentLemma
  <2>2. /\ buffer' \in BufferType /\ SameText(c, buffer') /\ SameSaved(c, buffer')
        /\ SameCache(c, buffer') /\ SameIndent(c, buffer') /\ buffer'.language = c.language
        /\ buffer'.syntax = c.syntax /\ buffer'.reparse = c.reparse
    BY <1>10, <2>1, StatusLemma DEF Follows
  <2>3. Ready(c)
    BY <1>4, <2>1 DEF Ready, Follows, BusyMeansParsing, SameParse
  <2>4. Follows(c, buffer')
    BY <2>2, <2>3, FollowsSame
  <2>5. Follows(buffer, buffer')
    BY <1>1, <1>3, <1>7, <2>1, <2>4, FollowsTransitive
  <2>6. buffer'.reparse = NoParse /\ buffer'.version = buffer.version
        /\ buffer'.language = buffer.language /\ buffer'.syntax = tree
    BY <1>4, <2>1, <2>2 DEF SameParse, SameText
  <2>7. BusyMeansParsing(buffer') /\ IdleParsed(buffer')
    BY <1>6, <1>10, <2>6 DEF BusyMeansParsing, IdleParsed
  <2>8. ServedIn(buffer')
    BY <2>1, <2>2 DEF ServedIn, NobodyWaits, SameIndent
  <2>9. QED
    BY <1>5, <2>5, <2>7, <2>8 DEF BufferStep, Follows, KeepsServed
<1>11. QED
  BY <1>5, <1>9, <1>10

-----------------------------------------------------------------------------
(* Every step keeps the invariant.                                         *)

LEMMA BudgetStays ==
    ASSUME budget \in [Ops -> Nat], NEW op \in Ops, Spend(op)
    PROVE  budget' \in [Ops -> Nat]
BY DEF Spend

(* What is known of the file survives as long as the history only grows. *)
LEMMA FileFactsKept ==
    ASSUME IInv, buffer' \in BufferType, Grows(buffer, buffer'),
           buffer'.saved_mtime <= disk.mtime, buffer'.file_mtime <= disk.mtime,
           UNCHANGED fileVars
    PROVE  FileKnown' /\ SavesSound' /\ ReloadSound'
<1>1. buffer \in BufferType
  BY InvReady
<1>2. disk' = disk /\ saves' = saves /\ reload' = reload
  BY DEF fileVars
<1>3. \A version : Known(buffer, version) =>
         Known(buffer', version) /\ TextAt(buffer', version) = TextAt(buffer, version)
  BY <1>1, KnownStays
<1>4. FileKnown'
  BY <1>2 DEF IInv, FileKnown
<1>5. SavesSound'
  BY <1>2, <1>3 DEF IInv, SavesSound
<1>6. ReloadSound'
  BY <1>2, <1>3 DEF IInv, ReloadSound
<1>7. QED
  BY <1>4, <1>5, <1>6

LEMMA BufferStepInv ==
    ASSUME IInv, BufferStep, budget' \in [Ops -> Nat]
    PROVE  IInv'
<1>1. FileKnown' /\ SavesSound' /\ ReloadSound'
  BY FileFactsKept DEF IInv, FileKnown, BufferStep, SameSaved
<1>2. QED
  BY <1>1 DEF BufferStep, IInv, TypeOK, Sound

(* The other steps leave the text and the tree alone, but for the end of a *)
(* reload.                                                                 *)
BufferKept ==
    /\ buffer' \in BufferType
    /\ Sound(buffer')
    /\ IdleParsed(buffer')
    /\ Grows(buffer, buffer')

LEMMA SameBuffer ==
    ASSUME IInv, buffer' = buffer
    PROVE  BufferKept
<1>1. Grows(buffer, buffer')
  BY InvReady, GrowsReflexive DEF SameText
<1>2. QED
  BY <1>1 DEF IInv, TypeOK, BufferKept

LEMMA SaveInv ==
    ASSUME IInv, Save
    PROVE  IInv'
<1> DEFINE save == [id |-> budget["save"], stage |-> "called", mtime |-> 0,
                    version |-> buffer.version, overtaken |-> FALSE]
<1>1. budget' \in [Ops -> Nat] /\ budget["save"] \in Nat
  BY BudgetStays DEF Save, IInv, TypeOK, Ops
<1>2. buffer' = buffer /\ disk' = disk /\ reload' = reload /\ saves' = saves \cup {save}
  BY DEF Save
<1>3. /\ buffer.version \in Version /\ buffer.version.n \in Nat
      /\ buffer.version.text <= buffer.version.n /\ disk.mtime \in Nat
  BY DEF IInv, TypeOK, BufferType, Version, Positive, Sound, HistoryComplete, FileKnown
<1>4. /\ save \in SaveType /\ save.mtime = 0 /\ save.stage = "called"
      /\ save.version = buffer.version
  BY <1>1, <1>3 DEF SaveType
<1> HIDE DEF save
<1>5. Known(buffer, save.version)
  BY <1>3, <1>4 DEF Known
<1>6. SavesSound'
  BY <1>2, <1>3, <1>4, <1>5 DEF IInv, SavesSound
<1>7. QED
  BY <1>1, <1>2, <1>6 DEF IInv, TypeOK, FileKnown, ReloadSound

(* The file has got a new mtime. *)
LEMMA NewMtime ==
    ASSUME IInv, NEW content \in Int, Written(content), buffer' = buffer, reload' = reload
    PROVE  FileKnown' /\ ReloadSound'
<1>1. disk.mtime \in Nat /\ buffer.saved_mtime \in Nat /\ buffer.file_mtime \in Nat
  BY DEF IInv, FileKnown, TypeOK, BufferType
<1>2. disk'.mtime = disk.mtime + 1 /\ disk' \in [content : Int, mtime : Nat]
  BY <1>1 DEF Written
<1>3. FileKnown'
  BY <1>1, <1>2 DEF IInv, FileKnown
<1>4. ReloadSound'
  BY <1>1, <1>2 DEF IInv, ReloadSound
<1>5. QED
  BY <1>3, <1>4

(* A save goes on, with or without a change of the file. *)
LEMMA ProceedsInv ==
    ASSUME IInv, NEW save \in saves, NEW progress \in SaveType, Proceeds(save, progress),
           buffer' = buffer, reload' = reload, budget' = budget,
           FileKnown', ReloadSound',
           disk' = disk \/ disk'.mtime = disk.mtime + 1,
           progress.version = save.version, progress.mtime <= disk'.mtime,
           /\ progress.stage \in {"written", "statted"} /\ ~progress.overtaken
           /\ progress.mtime = disk'.mtime
           => TextAt(buffer, save.version) = disk'.content
    PROVE  IInv'
<1>1. \A other \in saves : other.mtime \in Nat /\ other.mtime <= disk.mtime
  BY DEF IInv, SavesSound, SaveType
<1>2. disk.mtime \in Nat
  BY DEF IInv, FileKnown
<1>3. SavesSound'
  <2>1. SUFFICES ASSUME NEW other \in saves'
                 PROVE  /\ other \in SaveType
                        /\ Known(buffer, other.version)
                        /\ other.mtime <= disk'.mtime
                        /\ /\ other.stage \in {"written", "statted"} /\ ~other.overtaken
                           /\ other.mtime = disk'.mtime
                           => TextAt(buffer, other.version) = disk'.content
    BY DEF SavesSound
  <2>2. CASE other = progress
    BY <2>2 DEF IInv, SavesSound
  <2>3. CASE other \in saves
    BY <1>1, <1>2, <2>3 DEF IInv, SavesSound
  <2>4. QED
    BY <2>2, <2>3 DEF Proceeds
<1>4. QED
  BY <1>3 DEF IInv, TypeOK

(* The text of a known version is a content. *)
LEMMA KnownText ==
    ASSUME IInv, NEW version, Known(buffer, version)
    PROVE  TextAt(buffer, version) \in Int
<1>1. /\ buffer.contents \in Seq(Int) /\ buffer.version.n \in Nat
      /\ Len(buffer.contents) = buffer.version.n
  BY DEF IInv, TypeOK, Sound, HistoryComplete, BufferType, Version, Positive
<1>2. version.text \in 1..Len(buffer.contents)
  BY <1>1 DEF Known, Version, Positive
<1>3. QED
  BY <1>1, <1>2 DEF TextAt

LEMMA SaveOpensInv ==
    ASSUME IInv, NEW save \in saves, SaveOpens(save)
    PROVE  IInv'
<1> DEFINE mtime == disk.mtime + 1
           progress == [save EXCEPT !.stage = "opened", !.mtime = mtime]
<1>1. /\ Written(Foreign) /\ Proceeds(save, progress)
      /\ buffer' = buffer /\ reload' = reload /\ budget' = budget
  BY DEF SaveOpens
<1>2. save \in SaveType /\ disk.mtime \in Nat /\ mtime \in Nat /\ Foreign \in Int
  BY DEF IInv, SavesSound, FileKnown, Foreign
<1>3. disk'.mtime = mtime
  BY <1>1 DEF Written
<1>4. FileKnown' /\ ReloadSound'
  BY <1>1, <1>2, NewMtime
<1> HIDE DEF mtime
<1>5. /\ progress \in SaveType /\ progress.version = save.version
      /\ progress.mtime = mtime /\ progress.stage = "opened"
  BY <1>2 DEF SaveType
<1> HIDE DEF progress
<1>6. disk'.mtime = disk.mtime + 1
  BY <1>3 DEF mtime
<1>7. QED
  BY <1>1, <1>2, <1>3, <1>4, <1>5, <1>6, ProceedsInv

LEMMA SaveWrittenInv ==
    ASSUME IInv, NEW save \in saves, SaveWritten(save)
    PROVE  IInv'
<1> DEFINE mtime == disk.mtime + 1
           overtaken == save.mtime # disk.mtime
           progress == [save EXCEPT !.stage = "written", !.mtime = mtime,
                                    !.overtaken = overtaken]
<1>1. PICK content \in {TextAt(buffer, save.version)}
                         \cup (IF overtaken THEN {Foreign} ELSE {}) : Written(content)
  BY DEF SaveWritten
<1>2. /\ Proceeds(save, progress)
      /\ buffer' = buffer /\ reload' = reload /\ budget' = budget
  BY DEF SaveWritten
<1>3. /\ save \in SaveType /\ disk.mtime \in Nat /\ mtime \in Nat
      /\ Foreign \in Int /\ Known(buffer, save.version)
  BY DEF IInv, SavesSound, FileKnown, Foreign
<1>4. content \in Int
  BY <1>1, <1>3, KnownText
<1>5. disk'.mtime = mtime /\ disk'.content = content
  BY <1>1 DEF Written
<1>6. FileKnown' /\ ReloadSound'
  BY <1>1, <1>2, <1>4, NewMtime
<1>7. ~overtaken => content = TextAt(buffer, save.version)
  BY <1>1
<1>8. disk'.mtime = disk.mtime + 1
  BY <1>5
<1>9. overtaken \in BOOLEAN
  OBVIOUS
<1> HIDE DEF mtime, overtaken
<1>10. /\ progress \in SaveType /\ progress.version = save.version
       /\ progress.mtime = mtime /\ progress.overtaken = overtaken
  BY <1>3, <1>9 DEF SaveType
<1> HIDE DEF progress
<1>11. QED
  BY <1>2, <1>3, <1>5, <1>6, <1>7, <1>8, <1>10, ProceedsInv

(* If the mtime is still that of its own write, the file has its text. *)
LEMMA SaveStatsInv ==
    ASSUME IInv, NEW save \in saves, SaveStats(save)
    PROVE  IInv'
<1> DEFINE mtime == disk.mtime
           overtaken == save.overtaken \/ save.mtime # disk.mtime
           progress == [save EXCEPT !.stage = "statted", !.mtime = mtime,
                                    !.overtaken = overtaken]
<1>1. /\ Proceeds(save, progress) /\ save.stage = "written" /\ disk' = disk
      /\ buffer' = buffer /\ reload' = reload /\ budget' = budget
  BY DEF SaveStats
<1>2. save \in SaveType /\ mtime \in Nat
  BY DEF IInv, SavesSound, FileKnown
<1>3. FileKnown' /\ ReloadSound'
  BY <1>1 DEF IInv, FileKnown, ReloadSound
<1>4. ~overtaken => TextAt(buffer, save.version) = disk.content
  BY <1>1 DEF IInv, SavesSound
<1>5. overtaken \in BOOLEAN
  BY <1>2 DEF SaveType
<1>6. mtime = disk'.mtime /\ mtime <= disk'.mtime
  BY <1>1, <1>2
<1> HIDE DEF mtime, overtaken
<1>7. /\ progress \in SaveType /\ progress.version = save.version
      /\ progress.mtime = mtime /\ progress.overtaken = overtaken
  BY <1>2, <1>5 DEF SaveType
<1> HIDE DEF progress
<1>8. QED
  BY <1>1, <1>3, <1>4, <1>6, <1>7, ProceedsInv

LEMMA SaveFailsInv ==
    ASSUME IInv, NEW save \in saves, SaveFails(save)
    PROVE  IInv'
BY DEF SaveFails, IInv, TypeOK, FileKnown, SavesSound, ReloadSound

LEMMA DiskWrittenInv ==
    ASSUME IInv, DiskWritten
    PROVE  IInv'
<1>1. budget' \in [Ops -> Nat]
  BY BudgetStays DEF DiskWritten, IInv, TypeOK, Ops
<1>2. Written(Foreign) /\ buffer' = buffer /\ saves' = saves /\ reload' = reload
  BY DEF DiskWritten
<1>3. disk.mtime \in Nat /\ disk'.mtime = disk.mtime + 1 /\ Foreign \in Int
  BY <1>2 DEF IInv, FileKnown, Written, Foreign
<1>4. FileKnown' /\ ReloadSound'
  BY <1>2, <1>3, NewMtime
<1>5. \A save \in saves : save.mtime \in Nat
  BY DEF IInv, SavesSound, SaveType
<1>6. SavesSound'
  BY <1>2, <1>3, <1>5 DEF IInv, SavesSound
<1>7. QED
  BY <1>1, <1>2, <1>4, <1>6 DEF IInv, TypeOK

(* did_save: the version that was written is the one remembered. *)
LEMMA DidSaveInv ==
    ASSUME IInv, NEW save \in saves, DidSave(save)
    PROVE  IInv'
<1> DEFINE entry == [n |-> save.version.n, answer |-> FALSE]
<1>1. buffer \in BufferType /\ Ready(buffer) /\ IdleParsed(buffer)
  BY InvReady
<1>2. /\ save.version \in Version /\ save.mtime \in Nat /\ Known(buffer, save.version)
      /\ save.mtime <= disk.mtime
  BY DEF IInv, SavesSound, SaveType
<1>3. /\ buffer' = [buffer EXCEPT !.saved_version = save.version, !.has_unsaved_edits = entry,
                                  !.has_conflict = FALSE, !.saved_mtime = save.mtime]
      /\ saves' = saves \ {save} /\ disk' = disk /\ reload' = reload /\ budget' = budget
  BY DEF DidSave
<1>4. entry \in [n : Positive, answer : BOOLEAN] /\ entry.n = save.version.n
  BY <1>2 DEF Version
<1> HIDE DEF entry
<1>5. buffer' \in BufferType
  BY <1>1, <1>2, <1>3, <1>4 DEF BufferType
<1>6. /\ SameText(buffer, buffer') /\ SameParse(buffer, buffer')
      /\ buffer'.saved_version = save.version /\ buffer'.has_unsaved_edits = entry
      /\ buffer'.saved_mtime = save.mtime /\ buffer'.file_mtime = buffer.file_mtime
  BY <1>1, <1>3 DEF BufferType, SameText, SameParse
<1>7. BusyMeansParsing(buffer') /\ IdleParsed(buffer')
  BY <1>1, <1>6 DEF Ready, BusyMeansParsing, IdleParsed, SameText, SameParse
<1>8. HistoryComplete(buffer') /\ CacheSound(buffer')
  BY <1>1, <1>2, <1>4, <1>6 DEF Ready, HistoryComplete, CacheSound, SameText, Known
<1>9. Grows(buffer, buffer')
  BY <1>1, <1>6, GrowsReflexive
<1>10. \A version : Known(buffer, version) =>
          Known(buffer', version) /\ TextAt(buffer', version) = TextAt(buffer, version)
  BY <1>1, <1>5, <1>9, KnownStays
<1>11. FileKnown'
  BY <1>2, <1>3, <1>6 DEF IInv, FileKnown
<1>12. SavesSound'
  BY <1>3, <1>10 DEF IInv, SavesSound
<1>13. ReloadSound'
  BY <1>3, <1>10 DEF IInv, ReloadSound
<1>14. QED
  BY <1>3, <1>5, <1>7, <1>8, <1>11, <1>12, <1>13 DEF IInv, TypeOK, Sound

LEMMA FileUpdatedBuffer ==
    ASSUME IInv, FileUpdated
    PROVE  /\ buffer' \in BufferType
           /\ SameText(buffer, buffer')
           /\ SameParse(buffer, buffer')
           /\ SameIndent(buffer, buffer')
           /\ CacheSound(buffer')
           /\ buffer'.saved_version = buffer.saved_version
           /\ buffer'.saved_mtime = buffer.saved_mtime
           /\ buffer'.has_conflict = buffer.has_conflict
           /\ buffer'.file_mtime <= disk.mtime
<1> DEFINE a == Asked(buffer)
           needed == a.reload_needed \/ ~IsDirty(a)
<1>1. Ready(buffer) /\ buffer \in BufferType
  BY InvReady
<1>2. /\ a \in BufferType /\ SameText(buffer, a) /\ SameSaved(buffer, a)
      /\ SameParse(buffer, a) /\ SameIndent(buffer, a) /\ CacheSound(a)
  BY <1>1, AskedLemma DEF Ready
<1>3. PICK mtime \in (buffer.file_mtime + 1)..disk.mtime :
         buffer' = [a EXCEPT !.file_mtime = mtime, !.reload_needed = needed]
  BY <1>2 DEF FileUpdated, BufferType
<1>4. /\ needed \in BOOLEAN /\ buffer.file_mtime \in Nat /\ disk.mtime \in Nat
      /\ mtime \in Nat /\ mtime <= disk.mtime
  BY <1>1, <1>2 DEF BufferType, IInv, FileKnown
<1> HIDE DEF a, needed
<1>5. buffer' \in BufferType
  BY <1>2, <1>3, <1>4 DEF BufferType
<1>6. /\ SameText(a, buffer') /\ SameCache(a, buffer') /\ SameParse(a, buffer')
      /\ SameIndent(a, buffer') /\ buffer'.saved_version = a.saved_version
      /\ buffer'.saved_mtime = a.saved_mtime /\ buffer'.has_conflict = a.has_conflict
      /\ buffer'.file_mtime = mtime
  BY <1>2, <1>3 DEF BufferType, SameText, SameCache, SameParse, SameIndent
<1>7. CacheSound(buffer')
  BY <1>2, <1>6 DEF CacheSound, SameText, SameCache
<1>8. QED
  BY <1>2, <1>4, <1>5, <1>6, <1>7 DEF SameText, SameSaved, SameParse, SameIndent

LEMMA FileUpdatedInv ==
    ASSUME IInv, FileUpdated
    PROVE  IInv'
<1>1. Ready(buffer) /\ buffer \in BufferType /\ IdleParsed(buffer)
  BY InvReady
<1>2. UNCHANGED fileVars /\ budget' = budget
  BY DEF FileUpdated
<1>3. HistoryComplete(buffer') /\ BusyMeansParsing(buffer') /\ IdleParsed(buffer')
  BY <1>1, FileUpdatedBuffer DEF Ready, HistoryComplete, BusyMeansParsing, IdleParsed,
     SameText, SameParse
<1>4. Grows(buffer, buffer')
  BY <1>1, FileUpdatedBuffer, GrowsReflexive
<1>5. disk.mtime \in Nat /\ buffer.saved_mtime <= disk.mtime
  BY DEF IInv, FileKnown
<1>6. FileKnown' /\ SavesSound' /\ ReloadSound'
  BY <1>2, <1>4, <1>5, FileUpdatedBuffer, FileFactsKept
<1>7. QED
  BY <1>2, <1>3, <1>6, FileUpdatedBuffer DEF IInv, TypeOK, Sound

-----------------------------------------------------------------------------
(* Reloads.                                                                *)

LEMMA ReloadBuffer ==
    ASSUME IInv, Reload
    PROVE  /\ buffer' \in BufferType
           /\ SameText(buffer, buffer')
           /\ SameSaved(buffer, buffer')
           /\ SameCache(buffer, buffer')
           /\ SameParse(buffer, buffer')
           /\ SameIndent(buffer, buffer')
           /\ budget' \in [Ops -> Nat]
<1>1. buffer \in BufferType
  BY InvReady
<1>2. buffer' = [buffer EXCEPT !.reload_needed = FALSE]
  BY DEF Reload
<1>3. budget' \in [Ops -> Nat]
  BY BudgetStays DEF Reload, IInv, TypeOK, Ops
<1>4. QED
  BY <1>1, <1>2, <1>3 DEF BufferType, SameText, SameSaved, SameCache, SameParse, SameIndent

LEMMA ReloadInv ==
    ASSUME IInv, Reload
    PROVE  IInv'
<1>1. Ready(buffer) /\ buffer \in BufferType /\ IdleParsed(buffer)
  BY InvReady
<1>2. /\ reload' = [stage |-> "called", prev_version |-> buffer.version]
      /\ disk' = disk /\ saves' = saves
  BY DEF Reload
<1>3. Follows(buffer, buffer')
  BY <1>1, ReloadBuffer, FollowsSame DEF SameParse
<1>4. BusyMeansParsing(buffer') /\ IdleParsed(buffer')
  BY <1>1, ReloadBuffer DEF Ready, BusyMeansParsing, IdleParsed, SameText, SameParse
<1>5. \A version : Known(buffer, version) =>
         Known(buffer', version) /\ TextAt(buffer', version) = TextAt(buffer, version)
  BY <1>1, <1>3, KnownStays DEF Follows
<1>6. Known(buffer, buffer.version)
  BY <1>1 DEF Known, Ready, HistoryComplete, BufferType, Version, Positive
<1>7. ReloadSound'
  BY <1>2, <1>5, <1>6 DEF ReloadSound
<1>8. SavesSound'
  BY <1>2, <1>5 DEF IInv, SavesSound
<1>9. FileKnown'
  BY <1>2, ReloadBuffer DEF IInv, FileKnown, SameSaved
<1>10. QED
  BY <1>3, <1>4, <1>7, <1>8, <1>9, ReloadBuffer DEF IInv, TypeOK, Sound, Follows

(* The steps of the task before its last one. *)
ReloadProceeds == ReloadStarts \/ ReloadLoads \/ ReloadFails \/ ReloadDiffs

LEMMA ReloadProceedsInv ==
    ASSUME IInv, ReloadProceeds
    PROVE  IInv'
<1>1. buffer' = buffer /\ budget' = budget /\ disk' = disk /\ saves' = saves
  BY DEF ReloadProceeds, ReloadStarts, ReloadLoads, ReloadFails, ReloadDiffs, bufferVars
<1>2. SUFFICES ReloadSound'
  BY <1>1 DEF IInv, TypeOK, FileKnown, SavesSound
<1>3. disk.mtime \in Nat /\ disk.content \in Int /\ buffer.file_mtime \in Nat
      /\ buffer.file_mtime <= disk.mtime
  BY DEF IInv, FileKnown, TypeOK, BufferType
<1>4. CASE ReloadStarts
  BY <1>1, <1>3, <1>4 DEF ReloadStarts, IInv, ReloadSound
<1>5. CASE ReloadLoads
  BY <1>1, <1>3, <1>5 DEF ReloadLoads, IInv, ReloadSound
<1>6. CASE ReloadFails
  BY <1>1, <1>6 DEF ReloadFails, NoReload, ReloadSound
<1>7. CASE ReloadDiffs
  <2>1. Known(buffer, buffer.version)
    BY DEF Known, IInv, TypeOK, Sound, HistoryComplete, BufferType, Version, Positive
  <2> DEFINE edits == reload.content # TextAt(buffer, buffer.version)
  <2>2. reload' = [stage |-> "diffed", prev_version |-> reload.prev_version,
                   mtime |-> reload.mtime, content |-> reload.content,
                   base_version |-> buffer.version, edits |-> edits]
    BY <1>7 DEF ReloadDiffs
  <2>3. edits \in BOOLEAN /\ (~edits => TextAt(buffer, buffer.version) = reload.content)
    OBVIOUS
  <2> HIDE DEF edits
  <2>4. QED
    BY <1>1, <1>7, <2>1, <2>2, <2>3 DEF ReloadDiffs, IInv, ReloadSound
<1>8. QED
  BY <1>4, <1>5, <1>6, <1>7 DEF ReloadProceeds

LEMMA DidReloadLemma ==
    ASSUME NEW b \in BufferType, HistoryComplete(b), NEW conflict \in BOOLEAN,
           NEW version, Known(b, version), NEW mtime \in Nat
    PROVE  LET c == DidReload([b EXCEPT !.has_conflict = conflict], version, mtime)
           IN  /\ c \in BufferType
               /\ HistoryComplete(c)
               /\ CacheSound(c)
               /\ SameText(b, c)
               /\ SameParse(b, c)
               /\ SameIndent(b, c)
               /\ c.saved_version = version
               /\ c.saved_mtime = mtime
               /\ c.file_mtime = b.file_mtime
               /\ c.has_conflict = conflict
<1> DEFINE a == [b EXCEPT !.has_conflict = conflict]
           entry == [n |-> version.n, answer |-> FALSE]
           c == DidReload(a, version, mtime)
<1>1. /\ a \in BufferType /\ SameText(b, a) /\ SameParse(b, a) /\ SameIndent(b, a)
      /\ a.file_mtime = b.file_mtime /\ a.has_conflict = conflict
  BY DEF BufferType, SameText, SameParse, SameIndent
<1>2. c = [a EXCEPT !.saved_version = version, !.has_unsaved_edits = entry, !.saved_mtime = mtime]
  BY DEF DidReload
<1>3. /\ version \in Version /\ entry \in [n : Positive, answer : BOOLEAN]
      /\ entry.n = version.n
  BY DEF Known, Version
<1> HIDE DEF a, c, entry
<1>4. c \in BufferType
  BY <1>1, <1>2, <1>3 DEF BufferType
<1>5. /\ SameText(a, c) /\ SameParse(a, c) /\ SameIndent(a, c) /\ c.saved_version = version
      /\ c.saved_mtime = mtime /\ c.has_unsaved_edits = entry
      /\ c.file_mtime = a.file_mtime /\ c.has_conflict = a.has_conflict
  BY <1>1, <1>2 DEF BufferType, SameText, SameParse, SameIndent
<1>6. SameText(b, c) /\ SameParse(b, c) /\ SameIndent(b, c)
  BY <1>1, <1>5 DEF SameText, SameParse, SameIndent
<1>7. HistoryComplete(c) /\ CacheSound(c)
  BY <1>3, <1>5, <1>6 DEF HistoryComplete, CacheSound, SameText, Known
<1>8. QED
  BY <1>1, <1>4, <1>5, <1>6, <1>7 DEF a, c

(* What the file has to do with a buffer without conflict. *)
SavedIsOnDisk ==
    ~buffer.has_conflict /\ buffer.saved_mtime = disk.mtime =>
        TextAt(buffer, buffer.saved_version) = disk.content

LEMMA ReloadAppliesBuffer ==
    ASSUME IInv, ReloadApplies
    PROVE  /\ BufferKept
           /\ buffer'.saved_mtime <= disk.mtime
           /\ buffer'.file_mtime = buffer.file_mtime
           /\ KeepsServed
           /\ SavedIsOnDisk => SavedIsOnDisk' \/ ReloadEndsAstray
<1>1. Ready(buffer) /\ buffer \in BufferType /\ IdleParsed(buffer)
  BY InvReady
<1>2. /\ reload.stage = "diffed" /\ reload' = NoReload /\ disk' = disk
      /\ reload.mtime \in Nat /\ reload.mtime <= disk.mtime /\ reload.content \in Int
      /\ (reload.mtime = disk.mtime => reload.content = disk.content)
      /\ Known(buffer, reload.prev_version) /\ Known(buffer, reload.base_version)
      /\ reload.edits \in BOOLEAN
      /\ (~reload.edits => TextAt(buffer, reload.base_version) = reload.content)
  BY DEF ReloadApplies, IInv, ReloadSound
<1>3. CASE buffer.version.n = reload.base_version.n
  <2>1. ASSUME NEW b, Follows(buffer, b), BusyMeansParsing(b), IdleParsed(b),
               ServedIn(buffer) /\ buffer.language # NoLanguage => ServedIn(b),
               \/ TextAt(b, b.version) = reload.content
               \/ buffer.autoindent_requests /\ ~b.autoindent_requests,
               buffer' = DidReload([b EXCEPT !.has_conflict = FALSE], b.version, reload.mtime)
        PROVE  /\ BufferKept /\ buffer'.saved_mtime <= disk.mtime
               /\ buffer'.file_mtime = buffer.file_mtime /\ KeepsServed
               /\ SavedIsOnDisk' \/ ReloadEndsAstray
    <3>1. b \in BufferType /\ HistoryComplete(b) /\ Grows(buffer, b) /\ SameSaved(buffer, b)
      BY <2>1 DEF Follows
    <3>2. Known(b, b.version)
      BY <3>1 DEF Known, HistoryComplete, BufferType, Version, Positive
    <3>3. /\ buffer' \in BufferType /\ HistoryComplete(buffer') /\ CacheSound(buffer')
          /\ SameText(b, buffer') /\ SameParse(b, buffer') /\ SameIndent(b, buffer')
          /\ buffer'.saved_version = b.version /\ buffer'.saved_mtime = reload.mtime
          /\ buffer'.file_mtime = b.file_mtime
      <4> DEFINE no == FALSE
                 c == DidReload([b EXCEPT !.has_conflict = no], b.version, reload.mtime)
      <4>1. /\ c \in BufferType /\ HistoryComplete(c) /\ CacheSound(c)
            /\ SameText(b, c) /\ SameParse(b, c) /\ SameIndent(b, c)
            /\ c.saved_version = b.version /\ c.saved_mtime = reload.mtime
            /\ c.file_mtime = b.file_mtime
        <5>1. no \in BOOLEAN /\ reload.mtime \in Nat
          BY <1>2
        <5> HIDE DEF no
        <5>2. QED
          BY ONLY <3>1, <3>2, <5>1, DidReloadLemma
      <4>2. buffer' = c
        BY <2>1
      <4> HIDE DEF c
      <4>3. QED
        BY <4>1, <4>2
    <3>4. Grows(buffer, buffer')
      BY <1>1, <3>1, <3>3, GrowsReflexive, GrowsTransitive
    <3>5. Sound(buffer') /\ IdleParsed(buffer')
      BY <2>1, <3>3 DEF Sound, BusyMeansParsing, IdleParsed, SameText, SameParse
    <3>6. KeepsServed
      BY <2>1, <3>3 DEF KeepsServed, ServedIn, SameParse, SameIndent
    <3>7. SavedIsOnDisk' \/ ReloadEndsAstray
      <4>1. CASE TextAt(b, b.version) = reload.content
        BY <1>2, <3>3, <4>1 DEF SavedIsOnDisk, TextAt, SameText
      <4>2. CASE buffer.autoindent_requests /\ ~b.autoindent_requests
        BY <1>2, <3>3, <4>2 DEF ReloadEndsAstray, SameIndent
      <4>3. QED
        BY <2>1, <4>1, <4>2
    <3>8. QED
      BY <1>2, <3>1, <3>3, <3>4, <3>5, <3>6, <3>7 DEF BufferKept, SameSaved
  <2>2. CASE reload.edits
    <3> DEFINE a == Asked(buffer)
               e == EditText(a, reload.content)
    <3>1. PICK b \in DidEdit(e, IsDirty(buffer)) :
             buffer' = DidReload([b EXCEPT !.has_conflict = FALSE], b.version, reload.mtime)
      BY <1>3, <2>2 DEF ReloadApplies
    <3>2. Follows(buffer, a) /\ Ready(a) /\ SameIndent(buffer, a)
      BY <1>1, AskedFollows, AskedLemma
    <3> HIDE DEF a
    <3>3. Changes(a, e) /\ TextAt(e, e.version) = reload.content
      BY <1>2, <3>2, EditTextLemma DEF Ready
    <3> HIDE DEF e
    <3>4. Follows(a, e) /\ Ready(e)
      BY <3>2, <3>3, ChangesFollow
    <3>5. Follows(buffer, e) /\ e.language = buffer.language
      BY <1>1, <3>2, <3>4, FollowsTransitive DEF Follows
    <3>6. /\ Follows(e, b) /\ BusyMeansParsing(b) /\ IdleParsed(b) /\ OnlyIndented(e, b)
          /\ (e.language # NoLanguage => ServedIn(b))
      BY <3>4, IsDirtyBoolean, DidEditLemma
    <3>7. Follows(buffer, b)
      BY <1>1, <3>5, <3>6, FollowsTransitive
    <3>8. \/ TextAt(b, b.version) = reload.content
          \/ buffer.autoindent_requests /\ ~b.autoindent_requests
      BY <3>2, <3>3, <3>6 DEF OnlyIndented, TextAt, SameText, SameIndent, Changes
    <3>9. QED
      BY <2>1, <3>1, <3>5, <3>6, <3>7, <3>8
  <2>3. CASE ~reload.edits
    <3>1. buffer' = DidReload([buffer EXCEPT !.has_conflict = FALSE], buffer.version, reload.mtime)
      BY <1>3, <2>3 DEF ReloadApplies
    <3>2. Follows(buffer, buffer)
      BY <1>1, FollowsSame DEF SameText, SameSaved, SameCache
    <3>3. TextAt(buffer, buffer.version) = reload.content
      BY <1>2, <1>3, <2>3 DEF Known
    <3>4. QED
      BY <1>1, <2>1, <3>1, <3>2, <3>3 DEF Ready
  <2>4. QED
    BY <1>2, <2>2, <2>3
<1>4. CASE buffer.version.n # reload.base_version.n
  <2> DEFINE conflict == \/ buffer.has_conflict
                         \/ reload.edits
                         \/ HasEditsSince(buffer, reload.base_version)
  <2>1. buffer' = DidReload([buffer EXCEPT !.has_conflict = conflict], reload.prev_version,
                            buffer.saved_mtime)
    BY <1>1, <1>4 DEF ReloadApplies, BufferType
  <2>2. conflict \in BOOLEAN
    OBVIOUS
  <2>3. ~conflict => ReloadEndsAstray
    BY <1>2, <1>4 DEF ReloadEndsAstray, HasEditsSince
  <2> HIDE DEF conflict
  <2>4. HistoryComplete(buffer) /\ buffer.saved_mtime \in Nat
    BY <1>1 DEF Ready, BufferType
  <2>5. /\ buffer' \in BufferType /\ HistoryComplete(buffer') /\ CacheSound(buffer')
        /\ SameText(buffer, buffer') /\ SameParse(buffer, buffer')
        /\ SameIndent(buffer, buffer') /\ buffer'.saved_mtime = buffer.saved_mtime
        /\ buffer'.file_mtime = buffer.file_mtime /\ buffer'.has_conflict = conflict
    BY <1>1, <1>2, <2>1, <2>2, <2>4, DidReloadLemma
  <2>6. Grows(buffer, buffer')
    BY <1>1, <2>5, GrowsReflexive
  <2>7. Sound(buffer') /\ IdleParsed(buffer')
    BY <1>1, <2>5 DEF Ready, Sound, BusyMeansParsing, IdleParsed, SameText, SameParse
  <2>8. KeepsServed
    BY <2>5 DEF KeepsServed, ServedIn, SameParse, SameIndent
  <2>9. buffer'.saved_mtime <= disk.mtime
    BY <2>5 DEF IInv, FileKnown
  <2>10. SavedIsOnDisk' \/ ReloadEndsAstray
    BY <2>3, <2>5 DEF SavedIsOnDisk
  <2>11. QED
    BY <2>5, <2>6, <2>7, <2>8, <2>9, <2>10 DEF BufferKept
<1>5. QED
  BY <1>3, <1>4

LEMMA ReloadAppliesInv ==
    ASSUME IInv, ReloadApplies
    PROVE  IInv'
<1>1. buffer \in BufferType
  BY InvReady
<1>2. reload' = NoReload /\ disk' = disk /\ saves' = saves /\ budget' = budget
  BY DEF ReloadApplies
<1>3. BufferKept /\ buffer'.saved_mtime <= disk.mtime /\ buffer'.file_mtime = buffer.file_mtime
  BY ReloadAppliesBuffer
<1>4. \A version : Known(buffer, version) =>
         Known(buffer', version) /\ TextAt(buffer', version) = TextAt(buffer, version)
  BY <1>1, <1>3, KnownStays DEF BufferKept
<1>5. SavesSound'
  BY <1>2, <1>4 DEF IInv, SavesSound
<1>6. ReloadSound'
  BY <1>2 DEF ReloadSound, NoReload
<1>7. FileKnown'
  BY <1>2, <1>3 DEF IInv, FileKnown
<1>8. QED
  BY <1>2, <1>3, <1>5, <1>6, <1>7 DEF IInv, TypeOK, BufferKept

-----------------------------------------------------------------------------
(* The invariant.                                                          *)

(* The steps that are handlers of the first kind. *)
TextOrTree ==
    \/ \E autoindent \in BOOLEAN : Edit(autoindent)
    \/ SetText \/ Undo \/ ApplyEdits
    \/ AutoindentRanges \/ WaitForAutoindent
    \/ \E language \in Languages \cup {NoLanguage} : SetLanguage(language)
    \/ ParseFinishes \/ IndentsComputed

(* The steps of a save after its first one. *)
SaveProceeds ==
    \E save \in saves :
        SaveOpens(save) \/ SaveWritten(save) \/ SaveStats(save) \/ SaveFails(save) \/ DidSave(save)

LEMMA TextOrTreeStep ==
    ASSUME IInv, TextOrTree
    PROVE  BufferStep /\ KeepsServed /\ budget' \in [Ops -> Nat]
<1>1. CASE \E autoindent \in BOOLEAN : Edit(autoindent)
  BY <1>1, EditBuffer, BudgetStays DEF Edit, IInv, TypeOK, Ops
<1>2. CASE SetText
  BY <1>2, SetTextBuffer, BudgetStays DEF SetText, IInv, TypeOK, Ops
<1>3. CASE Undo
  BY <1>3, UndoBuffer, BudgetStays DEF Undo, IInv, TypeOK, Ops
<1>4. CASE ApplyEdits
  BY <1>4, ApplyEditsBuffer, BudgetStays DEF ApplyEdits, IInv, TypeOK, Ops
<1>5. CASE AutoindentRanges
  BY <1>5, AutoindentRangesBuffer, BudgetStays DEF AutoindentRanges, IInv, TypeOK, Ops
<1>6. CASE WaitForAutoindent
  BY <1>6, WaitForAutoindentBuffer, BudgetStays DEF WaitForAutoindent, IInv, TypeOK, Ops
<1>7. CASE \E language \in Languages \cup {NoLanguage} : SetLanguage(language)
  BY <1>7, SetLanguageBuffer, BudgetStays DEF SetLanguage, IInv, TypeOK, Ops
<1>8. CASE ParseFinishes
  BY <1>8, ParseFinishesBuffer DEF ParseFinishes, IInv, TypeOK
<1>9. CASE IndentsComputed
  BY <1>9, IndentsComputedBuffer DEF IndentsComputed, IInv, TypeOK
<1>10. QED
  BY <1>1, <1>2, <1>3, <1>4, <1>5, <1>6, <1>7, <1>8, <1>9 DEF TextOrTree

LEMMA SelectionsStep ==
    ASSUME IInv, ApplySelections
    PROVE  /\ BufferStep
           /\ budget' \in [Ops -> Nat]
           /\ budget'["selections"] < budget["selections"]
BY ApplySelectionsBuffer, BudgetStays DEF ApplySelections, Spend, IInv, TypeOK, Ops

LEMMA InitInv == Init => IInv
<1> SUFFICES ASSUME Init PROVE IInv
  OBVIOUS
<1>1. NoParse \in Parse /\ NoLanguage \in AnyLanguage
  BY DEF NoParse, Parse, AnyLanguage
<1>2. [n |-> 1, text |-> 1] \in Version
  BY DEF Version, Positive
<1>3. [n |-> 1, answer |-> FALSE] \in [n : Positive, answer : BOOLEAN]
  BY DEF Positive
<1>4. <<0>> \in Seq(Int) /\ <<>> \in Seq(Transaction)
  OBVIOUS
<1>5. buffer \in BufferType
  BY <1>1, <1>2, <1>3, <1>4 DEF Init, BufferType
<1>6. budget \in [Ops -> Nat]
  BY LanguageBufferAssumption DEF Init
<1>7. Sound(buffer) /\ IdleParsed(buffer)
  BY DEF Init, Sound, BusyMeansParsing, HistoryComplete, CacheSound, IdleParsed
<1>8. FileKnown /\ SavesSound /\ ReloadSound
  BY DEF Init, FileKnown, SavesSound, ReloadSound, NoReload
<1>9. QED
  BY <1>5, <1>6, <1>7, <1>8 DEF IInv, TypeOK

LEMMA NextInv == IInv /\ [Next]_vars => IInv'
<1> SUFFICES ASSUME IInv, [Next]_vars PROVE IInv'
  OBVIOUS
<1>1. CASE TextOrTree
  BY <1>1, TextOrTreeStep, BufferStepInv
<1>2. CASE ApplySelections
  BY <1>2, SelectionsStep, BufferStepInv
<1>3. CASE Save
  BY <1>3, SaveInv
<1>4. CASE SaveProceeds
  BY <1>4, SaveOpensInv, SaveWrittenInv, SaveStatsInv, SaveFailsInv, DidSaveInv DEF SaveProceeds
<1>5. CASE DiskWritten
  BY <1>5, DiskWrittenInv
<1>6. CASE FileUpdated
  BY <1>6, FileUpdatedInv
<1>7. CASE Reload
  BY <1>7, ReloadInv
<1>8. CASE ReloadProceeds
  BY <1>8, ReloadProceedsInv
<1>9. CASE ReloadApplies
  BY <1>9, ReloadAppliesInv
<1>10. CASE UNCHANGED vars
  BY <1>10 DEF vars, IInv, TypeOK, FileKnown, SavesSound, ReloadSound
<1>11. QED
  BY <1>1, <1>2, <1>3, <1>4, <1>5, <1>6, <1>7, <1>8, <1>9, <1>10
     DEF Next, TextOrTree, SaveProceeds, ReloadProceeds

THEOREM Invariance == Spec => []IInv
BY InitInv, NextInv, PTL DEF Spec

(* An idle buffer has the tree of its text in its language (parsing_idle), *)
(* whatever edits, languages and indentations raced with the parses,       *)
(* unless the parse an indentation had started was dropped by reparse.     *)
THEOREM IdleMeansParsedTheorem == Spec => []IdleMeansParsed
<1>1. IInv => IdleMeansParsed
  BY DEF IInv, IdleParsed, IdleMeansParsed
<1>2. QED
  BY <1>1, Invariance, PTL

(* Requests for indentation and those who wait for them (edit,             *)
(* autoindent_ranges, wait_for_autoindent_applied) always have a task that *)
(* will serve them, but for operations without text (apply_ops) and        *)
(* buffers without a language.                                             *)
THEOREM OnlySelectionsForgetTheorem == Spec => OnlySelectionsForget
<1> DEFINE Step == Served /\ ~Served' =>
                       \/ budget'["selections"] < budget["selections"]
                       \/ buffer.language = NoLanguage
<1>1. IInv /\ [Next]_vars => [Step]_vars
  <2> SUFFICES ASSUME IInv, [Next]_vars, Served, buffer.language # NoLanguage
               PROVE  Served' \/ budget'["selections"] < budget["selections"]
    OBVIOUS
  <2>1. ServedIn(buffer)
    BY DEF Served, ServedIn
  <2>2. SUFFICES ServedIn(buffer') \/ budget'["selections"] < budget["selections"]
    BY DEF Served, ServedIn
  <2>3. CASE TextOrTree
    BY <2>1, <2>3, TextOrTreeStep DEF KeepsServed
  <2>4. CASE ApplySelections
    BY <2>4, SelectionsStep
  <2>5. CASE Save \/ DiskWritten \/ ReloadProceeds
    BY <2>1, <2>5 DEF Save, DiskWritten, ReloadProceeds, ReloadStarts, ReloadLoads,
       ReloadFails, ReloadDiffs, bufferVars, ServedIn
  <2>6. CASE SaveProceeds
    <3>1. PICK save \in saves :
             SaveOpens(save) \/ SaveWritten(save) \/ SaveStats(save) \/ SaveFails(save) \/ DidSave(save)
      BY <2>6 DEF SaveProceeds
    <3>2. CASE SaveOpens(save) \/ SaveWritten(save) \/ SaveStats(save) \/ SaveFails(save)
      BY <2>1, <3>2 DEF SaveOpens, SaveWritten, SaveStats, SaveFails, ServedIn
    <3>3. CASE DidSave(save)
      BY <2>1, <3>3 DEF DidSave, ServedIn, IInv, TypeOK, BufferType
    <3>4. QED
      BY <3>1, <3>2, <3>3
  <2>7. CASE FileUpdated
    BY <2>1, <2>7, FileUpdatedBuffer DEF ServedIn, SameParse, SameIndent
  <2>8. CASE Reload
    BY <2>1, <2>8, ReloadBuffer DEF ServedIn, SameParse, SameIndent
  <2>9. CASE ReloadApplies
    BY <2>1, <2>9, ReloadAppliesBuffer DEF KeepsServed
  <2>10. CASE UNCHANGED vars
    BY <2>1, <2>10 DEF vars, ServedIn
  <2>11. QED
    BY <2>3, <2>4, <2>5, <2>6, <2>7, <2>8, <2>9, <2>10
       DEF Next, TextOrTree, SaveProceeds, ReloadProceeds
<1>2. QED
  BY <1>1, Invariance, PTL DEF Spec, OnlySelectionsForget

(* No step makes what is taken for saved differ from an unchanged file,    *)
(* but the end of an overtaken save and the two ends of a reload.          *)
LEMMA SavedStaysOnDisk ==
    ASSUME IInv, Next, SavedIsOnDisk
    PROVE  SavedIsOnDisk' \/ OvertakenSaveEnds \/ ReloadEndsAstray
<1>1. buffer \in BufferType /\ HistoryComplete(buffer) /\ disk.mtime \in Nat
      /\ buffer.saved_mtime \in Nat /\ buffer.saved_mtime <= disk.mtime
  BY DEF IInv, TypeOK, Sound, FileKnown, BufferType
<1>2. buffer.saved_version.text \in 1..buffer.version.n
  BY <1>1 DEF HistoryComplete, BufferType, Version, Positive
<1>3. CASE BufferStep
  <2>1. TextAt(buffer', buffer.saved_version) = TextAt(buffer, buffer.saved_version)
    BY <1>2, <1>3 DEF BufferStep, Grows, TextAt
  <2>2. QED
    BY <1>3, <2>1 DEF BufferStep, SameSaved, SavedIsOnDisk, fileVars
<1>4. CASE Save \/ ReloadProceeds
  BY <1>4 DEF Save, ReloadProceeds, ReloadStarts, ReloadLoads, ReloadFails, ReloadDiffs,
     bufferVars, SavedIsOnDisk
<1>5. CASE SaveProceeds
  <2>1. PICK save \in saves :
           SaveOpens(save) \/ SaveWritten(save) \/ SaveStats(save) \/ SaveFails(save) \/ DidSave(save)
    BY <1>5 DEF SaveProceeds
  <2>2. CASE SaveOpens(save) \/ SaveWritten(save)
    <3>1. buffer' = buffer /\ disk'.mtime = disk.mtime + 1
      BY <2>2 DEF SaveOpens, SaveWritten, Written
    <3>2. QED
      BY <1>1, <3>1 DEF SavedIsOnDisk
  <2>3. CASE SaveStats(save) \/ SaveFails(save)
    BY <2>3 DEF SaveStats, SaveFails, SavedIsOnDisk
  <2>4. CASE DidSave(save)
    <3>1. /\ save.stage = "statted"
          /\ ~save.overtaken /\ save.mtime = disk.mtime =>
                TextAt(buffer, save.version) = disk.content
      BY <2>4 DEF DidSave, IInv, SavesSound
    <3>2. /\ buffer'.saved_version = save.version /\ buffer'.saved_mtime = save.mtime
          /\ buffer'.contents = buffer.contents /\ disk' = disk /\ saves' = saves \ {save}
      BY <1>1, <2>4 DEF DidSave, BufferType
    <3>3. save.overtaken => OvertakenSaveEnds
      BY <3>1, <3>2 DEF OvertakenSaveEnds
    <3>4. QED
      BY <3>1, <3>2, <3>3 DEF SavedIsOnDisk, TextAt
  <2>5. QED
    BY <2>1, <2>2, <2>3, <2>4
<1>6. CASE DiskWritten
  <2>1. buffer' = buffer /\ disk'.mtime = disk.mtime + 1
    BY <1>6 DEF DiskWritten, Written
  <2>2. QED
    BY <1>1, <2>1 DEF SavedIsOnDisk
<1>7. CASE FileUpdated
  <2>1. disk' = disk
    BY <1>7 DEF FileUpdated, fileVars
  <2>2. QED
    BY <1>7, <2>1, FileUpdatedBuffer DEF SavedIsOnDisk, TextAt, SameText
<1>8. CASE Reload
  <2>1. disk' = disk
    BY <1>8 DEF Reload
  <2>2. QED
    BY <1>8, <2>1, ReloadBuffer DEF SavedIsOnDisk, TextAt, SameText, SameSaved
<1>9. CASE ReloadApplies
  BY <1>9, ReloadAppliesBuffer
<1>10. QED
  BY <1>3, <1>4, <1>5, <1>6, <1>7, <1>8, <1>9, TextOrTreeStep, SelectionsStep
     DEF Next, TextOrTree, SaveProceeds, ReloadProceeds

(* A buffer that says it has no unsaved edits shows what was saved, and    *)
(* that is in the file unless the file is newer (is_dirty, did_save,       *)
(* did_reload).  Of all interleavings of edits with saves, reloads and     *)
(* writes of others, only these break it: the end of a save whose file     *)
(* somebody else, or another save, wrote between its opening and the look  *)
(* at its mtime, and the two ends of a reload.                             *)
THEOREM CleanMeansOnDiskTheorem == Spec => CleanMeansOnDisk
<1> DEFINE Step == ShowsFile /\ ~ShowsFile' => OvertakenSaveEnds \/ ReloadEndsAstray
<1>1. IInv /\ IInv' /\ [Next]_vars => [Step]_vars
  <2> SUFFICES ASSUME IInv, IInv', Next, ShowsFile
               PROVE  ShowsFile' \/ OvertakenSaveEnds \/ ReloadEndsAstray
    OBVIOUS
  <2>1. SavedIsOnDisk
    BY DEF ShowsFile, SavedIsOnDisk
  <2>2. SavedIsOnDisk' \/ OvertakenSaveEnds \/ ReloadEndsAstray
    BY <2>1, SavedStaysOnDisk
  <2>3. ~IsDirty(buffer') => ~HasEditsSince(buffer', buffer'.saved_version)
    <3>1. buffer' \in BufferType /\ CacheSound(buffer')
      BY DEF IInv, TypeOK, Sound
    <3>2. ~HasUnsavedEdits(buffer') => buffer'.version.text = buffer'.saved_version.text
      BY <3>1, HasUnsavedEditsLemma
    <3>3. QED
      BY <3>2 DEF IsDirty, HasEditsSince
  <2>4. QED
    BY <2>2, <2>3 DEF ShowsFile, SavedIsOnDisk
<1>2. QED
  BY <1>1, Invariance, PTL DEF Spec, CleanMeansOnDisk

=============================================================================
