--------------------------- MODULE LanguageBuffer ---------------------------
(***************************************************************************)
(* What language::Buffer (src/crates/language/src/buffer.rs) keeps in step *)
(* with its text while background tasks run: the syntax tree, the          *)
(* auto-indents that wait for it, and the relation to the file that is     *)
(* saved, reloaded and changed by others.                                  *)
(*                                                                         *)
(* Handlers run to completion on the main thread, so each is one step; the *)
(* sets below hold the outcomes of a handler that may block for a while    *)
(* and then leave the work to a task.  A version is the number of the last *)
(* operation and the identity of the visible text, which undo brings back; *)
(* a buffer can reproduce what the text was at each (text::Buffer keeps    *)
(* all fragments).                                                         *)
(***************************************************************************)
EXTENDS Integers, Sequences, SequencesExt

CONSTANTS
    Languages,  \* the languages a buffer may be given
    NoLanguage, \* and none
    Budgets     \* the instances examined: how often each operation may occur

Ops == {"edit", "undo", "remote_edit", "selections", "language", "ranges", "wait",
        "save", "reload", "reload_needed", "disk_write"}

ASSUME LanguageBufferAssumption ==
    /\ NoLanguage \notin Languages
    /\ Budgets \subseteq [Ops -> Nat]

VARIABLES
    buffer,     \* Buffer
    disk,       \* the file: its content and mtime
    saves,      \* save_local_buffer under way
    reload,     \* Buffer::reload_task
    budget      \* the operations that are left

vars == <<buffer, disk, saves, reload, budget>>

Spend(op) == budget[op] > 0 /\ budget' = [budget EXCEPT ![op] = @ - 1]

NoParse == [n |-> -1, language |-> NoLanguage]

NoReload == [stage |-> "none"]

(* Contents are numbers: typed text is positive, that of others negative. *)
Init ==
    /\ buffer = [version |-> [n |-> 1, text |-> 1],
                 contents |-> <<0>>,
                 undo_stack |-> <<>>,
                 language |-> NoLanguage,
                 syntax |-> NoParse,
                 parse_status |-> "Idle",
                 reparse |-> NoParse,
                 autoindent_requests |-> FALSE,
                 pending_autoindent |-> FALSE,
                 wait_for_autoindent_txs |-> FALSE,
                 lost_reparse |-> FALSE,
                 saved_version |-> [n |-> 1, text |-> 1],
                 has_unsaved_edits |-> [n |-> 1, answer |-> FALSE],
                 has_conflict |-> FALSE,
                 saved_mtime |-> 0,
                 file_mtime |-> 0,
                 reload_needed |-> FALSE]
    /\ disk = [content |-> 0, mtime |-> 0]
    /\ saves = {}
    /\ reload = NoReload
    /\ budget \in Budgets

-----------------------------------------------------------------------------
(* Unsaved edits.                                                          *)

HasEditsSince(b, version) == version.text # b.version.text

(* has_unsaved_edits caches its answer for the version it was asked at. *)
HasUnsavedEdits(b) ==
    IF b.has_unsaved_edits.n = b.version.n THEN b.has_unsaved_edits.answer
    ELSE HasEditsSince(b, b.saved_version)

IsDirty(b) == b.has_conflict \/ HasUnsavedEdits(b)

Asked(b) ==
    IF b.has_conflict THEN b
    ELSE [b EXCEPT !.has_unsaved_edits = [n |-> b.version.n, answer |-> HasUnsavedEdits(b)]]

(* The end of did_edit. *)
NoticeDirty(b, was_dirty) ==
    LET c == Asked(b)
    IN  [c EXCEPT !.reload_needed =
            @ \/ (was_dirty /\ ~IsDirty(c) /\ c.file_mtime # c.saved_mtime)]

-----------------------------------------------------------------------------
(* Changing the text.                                                      *)

TextAt(b, version) == b.contents[version.text]

ChangeText(b, content) ==
    [b EXCEPT !.version = [n |-> @.n + 1, text |-> @.n + 1],
              !.contents = Append(@, content),
              !.pending_autoindent = FALSE]

(* text.edit within a transaction of its own. *)
EditText(b, content) ==
    [ChangeText(b, content) EXCEPT
        !.undo_stack = Append(@, [before |-> b.version.text, after |-> b.version.n + 1])]

Typed(b) == EditText(b, b.version.n + 1)

(* The last transaction is undone; other edits since then remain. *)
UndoText(b) ==
    LET t == Last(b.undo_stack)
        c == ChangeText(b, b.version.n + 1)
    IN  [c EXCEPT !.undo_stack = Front(@),
                  !.version.text = IF b.version.text = t.after THEN t.before ELSE @]

-----------------------------------------------------------------------------
(* Parsing and auto-indentation.                                           *)

(* Mutant of Told: those who wait are forgotten. *)
ToldNobody(b) == [b EXCEPT !.autoindent_requests = FALSE]

(* The requests are dropped and whoever waits for them is told. *)
Told(b) == [b EXCEPT !.autoindent_requests = FALSE, !.wait_for_autoindent_txs = FALSE]

Parsed(b) == [b EXCEPT !.syntax = [n |-> b.version.n, language |-> b.language],
                       !.lost_reparse = FALSE]

(* The parse is left to a background task. *)
SpawnParse(b) ==
    [b EXCEPT !.parse_status = "Parsing",
              !.reparse = [n |-> b.version.n, language |-> b.language]]

CannotParse(b) == b.reparse # NoParse \/ b.language = NoLanguage

(* reparse of a buffer without auto-indent requests. *)
ReparseOnly(b) ==
    IF CannotParse(b) THEN {b}
    ELSE {SpawnParse(b), [Told(Parsed(b)) EXCEPT !.parse_status = "Idle"]}

(* apply_autoindents: an edit of its own, unless nothing has to move. *)
ApplyAutoindents(b) ==
    LET c == Told(b)
    IN  {c} \cup {NoticeDirty(d, IsDirty(c)) : d \in ReparseOnly(Typed(c))}

(* request_autoindent, blocking for a while or not. *)
RequestAutoindent(b, may_block) ==
    IF b.syntax = NoParse \/ ~b.autoindent_requests THEN {Told(b)}
    ELSE {[b EXCEPT !.pending_autoindent = TRUE]}
            \cup (IF may_block THEN ApplyAutoindents(b) ELSE {})

(* The way out of reparse when the parse was done at once: the status is   *)
(* set, and `reparse` cleared, after an indentation may have started       *)
(* another parse.                                                          *)
EndOfReparse(b) ==
    [b EXCEPT !.parse_status = "Idle",
              !.lost_reparse = @ \/ b.reparse # NoParse,
              !.reparse = NoParse]

(* reparse(may_block = true) *)
Reparse(b) ==
    IF CannotParse(b) THEN {b}
    ELSE {SpawnParse(b)}
            \cup {EndOfReparse(c) :
                     c \in RequestAutoindent([Parsed(b) EXCEPT !.parse_status = "Parsing"], TRUE)}

(* did_edit, for edits that changed the text. *)
DidEdit(b, was_dirty) == {NoticeDirty(c, was_dirty) : c \in Reparse(b)}

-----------------------------------------------------------------------------
(* Handlers.                                                               *)

Outcome(outcomes) == buffer' \in outcomes

fileVars == <<disk, saves, reload>>

(* edit, with or without an AutoindentMode *)
Edit(autoindent) ==
    /\ Spend("edit")
    /\ LET b == Typed(Asked(buffer))
           request == autoindent /\ b.language # NoLanguage
       IN  Outcome(DidEdit([b EXCEPT !.autoindent_requests = @ \/ request], IsDirty(buffer)))
    /\ UNCHANGED fileVars

(* set_text drops the requests first. *)
SetText ==
    /\ Spend("edit")
    /\ Outcome(DidEdit([Typed(Asked(buffer)) EXCEPT !.autoindent_requests = FALSE],
                       IsDirty(buffer)))
    /\ UNCHANGED fileVars

Undo ==
    /\ Spend("undo")
    /\ buffer.undo_stack # <<>>
    /\ Outcome(DidEdit(UndoText(Asked(buffer)), IsDirty(buffer)))
    /\ UNCHANGED fileVars

(* apply_ops with an edit among the operations. *)
ApplyEdits ==
    /\ Spend("remote_edit")
    /\ Outcome(DidEdit(ChangeText(Asked(buffer), buffer.version.n + 1), IsDirty(buffer)))
    /\ UNCHANGED fileVars

(* apply_ops with selections or diagnostics only: did_edit returns early,  *)
(* but the auto-indent under way was given up first.                       *)
ApplySelections ==
    /\ Spend("selections")
    /\ Outcome({[Asked(buffer) EXCEPT !.pending_autoindent = FALSE]})
    /\ UNCHANGED fileVars

AutoindentRanges ==
    /\ Spend("ranges")
    /\ Outcome(RequestAutoindent([buffer EXCEPT !.autoindent_requests = TRUE], TRUE))
    /\ UNCHANGED fileVars

(* wait_for_autoindent_applied *)
WaitForAutoindent ==
    /\ Spend("wait")
    /\ buffer.autoindent_requests
    /\ Outcome({[buffer EXCEPT !.wait_for_autoindent_txs = TRUE]})
    /\ UNCHANGED fileVars

SetLanguage(language) ==
    /\ Spend("language")
    /\ language # buffer.language
    /\ Outcome(Reparse([buffer EXCEPT !.language = language, !.syntax = NoParse]))
    /\ UNCHANGED fileVars

(* Mutant of ParseFinishes: an edit made during the parse is missed. *)
ParseFinishesOnce ==
    LET task == buffer.reparse
        again == task.language # buffer.language
        b == [buffer EXCEPT !.reparse = NoParse, !.lost_reparse = FALSE,
                            !.syntax = IF buffer.language = NoLanguage THEN NoParse ELSE task]
        complete == ~again \/ b.language = NoLanguage
    IN  /\ task # NoParse
        /\ Outcome(IF complete
                   THEN {[c EXCEPT !.parse_status = "Idle"] : c \in RequestAutoindent(b, FALSE)}
                   ELSE {SpawnParse(b)})
        /\ UNCHANGED <<fileVars, budget>>

(* Mutant of ParseFinishes: the version that was parsed counts as changed. *)
ParseFinishesAgain ==
    LET task == buffer.reparse
        again == task.n <= buffer.version.n \/ task.language # buffer.language
        b == [buffer EXCEPT !.reparse = NoParse, !.lost_reparse = FALSE,
                            !.syntax = IF buffer.language = NoLanguage THEN NoParse ELSE task]
        complete == ~again \/ b.language = NoLanguage
    IN  /\ task # NoParse
        /\ Outcome(IF complete
                   THEN {[c EXCEPT !.parse_status = "Idle"] : c \in RequestAutoindent(b, FALSE)}
                   ELSE {SpawnParse(b)})
        /\ UNCHANGED <<fileVars, budget>>

(* The background parse ends (reparse, did_finish_parsing): it starts      *)
(* again if text or language have changed, else auto-indents are computed. *)
ParseFinishes ==
    LET task == buffer.reparse
        again == task.n # buffer.version.n \/ task.language # buffer.language
        b == [buffer EXCEPT !.reparse = NoParse, !.lost_reparse = FALSE,
                            !.syntax = IF buffer.language = NoLanguage THEN NoParse ELSE task]
        complete == ~again \/ b.language = NoLanguage
    IN  /\ task # NoParse
        /\ Outcome(IF complete
                   THEN {[c EXCEPT !.parse_status = "Idle"] : c \in RequestAutoindent(b, FALSE)}
                   ELSE {SpawnParse(b)})
        /\ UNCHANGED <<fileVars, budget>>

(* The task in pending_autoindent ends. *)
IndentsComputed ==
    /\ buffer.pending_autoindent
    /\ Outcome(ApplyAutoindents([buffer EXCEPT !.pending_autoindent = FALSE]))
    /\ UNCHANGED <<fileVars, budget>>

-----------------------------------------------------------------------------
(* The file: buffer_store.rs, save_local_buffer, and the worktree that     *)
(* writes, reads and watches it.                                           *)

bufferVars == <<buffer, budget>>

(* A content that no version has: what somebody else wrote, a file that is *)
(* only partly written, or what is left when two writes overlap.           *)
Foreign == -(disk.mtime + 1)

Written(content) == disk' = [content |-> content, mtime |-> disk.mtime + 1]

Proceeds(save, progress) == saves' = (saves \ {save}) \cup {progress}

(* The text to write and its version are taken at once ... *)
Save ==
    /\ Spend("save")
    /\ saves' = saves \cup {[id |-> budget["save"], stage |-> "called", mtime |-> 0,
                             version |-> buffer.version, overtaken |-> FALSE]}
    /\ UNCHANGED <<buffer, disk, reload>>

(* ... the file is created or truncated (fs.save) ... *)
SaveOpens(save) ==
    /\ save.stage = "called"
    /\ Written(Foreign)
    /\ Proceeds(save, [save EXCEPT !.stage = "opened", !.mtime = disk.mtime + 1])
    /\ UNCHANGED <<buffer, reload, budget>>

(* ... and filled; what others wrote since may shine through.  The mtime   *)
(* of a save is the last one seen of the file, and overtaken tells whether *)
(* it has changed by somebody else's hand since the file was opened ...    *)
SaveWritten(save) ==
    /\ save.stage = "opened"
    /\ LET overtaken == save.mtime # disk.mtime
       IN  /\ \E content \in {TextAt(buffer, save.version)}
                               \cup (IF overtaken THEN {Foreign} ELSE {}) :
                 Written(content)
           /\ Proceeds(save, [save EXCEPT !.stage = "written", !.mtime = disk.mtime + 1,
                                          !.overtaken = overtaken])
    /\ UNCHANGED <<buffer, reload, budget>>

(* ... then the worktree looks at it anew (refresh_entry, fs.metadata):    *)
(* whoever wrote it last, the mtime is the one that did_save will get ...  *)
SaveStats(save) ==
    /\ save.stage = "written"
    /\ Proceeds(save, [save EXCEPT !.stage = "statted", !.mtime = disk.mtime,
                                   !.overtaken = @ \/ save.mtime # disk.mtime])
    /\ UNCHANGED <<buffer, disk, reload, budget>>

(* ... or any of this fails and nothing is remembered ... *)
SaveFails(save) ==
    /\ save.stage # "statted"
    /\ saves' = saves \ {save}
    /\ UNCHANGED <<buffer, disk, reload, budget>>

(* Mutant of DidSave: the version at the end of the save is remembered. *)
DidSaveLate(save) ==
    /\ save.stage = "statted"
    /\ saves' = saves \ {save}
    /\ buffer' = [buffer EXCEPT
          !.saved_version = buffer.version,
          !.has_unsaved_edits = [n |-> buffer.version.n, answer |-> FALSE],
          !.has_conflict = FALSE,
          !.saved_mtime = save.mtime]
    /\ UNCHANGED <<disk, reload, budget>>

(* ... and did_save remembers what was written. *)
DidSave(save) ==
    /\ save.stage = "statted"
    /\ saves' = saves \ {save}
    /\ buffer' = [buffer EXCEPT
          !.saved_version = save.version,
          !.has_unsaved_edits = [n |-> save.version.n, answer |-> FALSE],
          !.has_conflict = FALSE,
          !.saved_mtime = save.mtime]
    /\ UNCHANGED <<disk, reload, budget>>

(* Somebody else writes the file. *)
DiskWritten ==
    /\ Spend("disk_write")
    /\ Written(Foreign)
    /\ UNCHANGED <<buffer, saves, reload>>

(* file_updated: the worktree has seen a new mtime, perhaps no longer the  *)
(* last one.                                                               *)
FileUpdated ==
    /\ \E mtime \in (buffer.file_mtime + 1)..disk.mtime :
          LET b == Asked(buffer)
          IN  buffer' = [b EXCEPT !.file_mtime = mtime,
                                  !.reload_needed = @ \/ ~IsDirty(b)]
    /\ UNCHANGED <<fileVars, budget>>

(* reload: asked for by the user or, through the project, by the buffer.   *)
(* A reload that is still under way is dropped.                            *)
Reload ==
    /\ \/ buffer.reload_needed /\ Spend("reload_needed")
       \/ ~buffer.reload_needed /\ Spend("reload")
    /\ reload' = [stage |-> "called", prev_version |-> buffer.version]
    /\ buffer' = [buffer EXCEPT !.reload_needed = FALSE]
    /\ UNCHANGED <<disk, saves>>

(* The steps of the task: the mtime known is read ... *)
ReloadStarts ==
    /\ reload.stage = "called"
    /\ reload' = [stage |-> "loading", prev_version |-> reload.prev_version,
                  mtime |-> buffer.file_mtime]
    /\ UNCHANGED <<bufferVars, disk, saves>>

(* ... the bytes are read ... *)
ReloadLoads ==
    /\ reload.stage = "loading"
    /\ reload' = [stage |-> "loaded", prev_version |-> reload.prev_version,
                  mtime |-> reload.mtime, content |-> disk.content]
    /\ UNCHANGED <<bufferVars, disk, saves>>

(* ... unless they cannot be read, or are no text ... *)
ReloadFails ==
    /\ reload.stage = "loading"
    /\ reload' = NoReload
    /\ UNCHANGED <<bufferVars, disk, saves>>

(* ... and compared with the text of the buffer at that time. *)
ReloadDiffs ==
    /\ reload.stage = "loaded"
    /\ reload' = [stage |-> "diffed", prev_version |-> reload.prev_version,
                  mtime |-> reload.mtime, content |-> reload.content,
                  base_version |-> buffer.version,
                  edits |-> reload.content # TextAt(buffer, buffer.version)]
    /\ UNCHANGED <<bufferVars, disk, saves>>

DidReload(b, version, mtime) ==
    [b EXCEPT !.saved_version = version,
              !.has_unsaved_edits = [n |-> version.n, answer |-> FALSE],
              !.saved_mtime = mtime]

(* The diff is applied to the version it was made for; else the buffer is  *)
(* in conflict if anything differs.                                        *)
ReloadApplies ==
    /\ reload.stage = "diffed"
    /\ reload' = NoReload
    /\ IF buffer.version.n = reload.base_version.n
       THEN \E b \in IF reload.edits
                     THEN DidEdit(EditText(Asked(buffer), reload.content), IsDirty(buffer))
                     ELSE {buffer} :
               buffer' = DidReload([b EXCEPT !.has_conflict = FALSE], b.version, reload.mtime)
       ELSE LET conflict == reload.edits \/ HasEditsSince(buffer, reload.base_version)
            IN  buffer' = DidReload([buffer EXCEPT !.has_conflict = @ \/ conflict],
                                    reload.prev_version, buffer.saved_mtime)
    /\ UNCHANGED <<disk, saves, budget>>

-----------------------------------------------------------------------------
Next ==
    \/ \E autoindent \in BOOLEAN : Edit(autoindent)
    \/ SetText \/ Undo \/ ApplyEdits \/ ApplySelections
    \/ AutoindentRanges \/ WaitForAutoindent
    \/ \E language \in Languages \cup {NoLanguage} : SetLanguage(language)
    \/ ParseFinishes \/ IndentsComputed
    \/ Save
    \/ \E save \in saves :
          SaveOpens(save) \/ SaveWritten(save) \/ SaveStats(save) \/ SaveFails(save) \/ DidSave(save)
    \/ DiskWritten \/ FileUpdated
    \/ Reload \/ ReloadStarts \/ ReloadLoads \/ ReloadFails \/ ReloadDiffs \/ ReloadApplies

Spec == Init /\ [][Next]_vars

(* Background tasks end. *)
Fairness == WF_vars(ParseFinishes) /\ WF_vars(IndentsComputed)

FairSpec == Spec /\ Fairness

-----------------------------------------------------------------------------
(* Properties.                                                             *)

(* Who waits for parsing_idle finds the tree of the present text in the    *)
(* present language (buffer.rs, parsing_idle), unless the parse that an   *)
(* indentation had started was dropped at the end of reparse.              *)
IdleMeansParsed ==
    buffer.parse_status = "Idle" /\ buffer.language # NoLanguage /\ ~buffer.lost_reparse =>
        buffer.syntax = [n |-> buffer.version.n, language |-> buffer.language]

(* Requests and waiters are never left without a task that will serve them *)
(* ("will be processed when the buffer finishes parsing"), except by       *)
(* operations without text and in a buffer without a language.             *)
Served ==
    buffer.autoindent_requests \/ buffer.wait_for_autoindent_txs =>
        buffer.reparse # NoParse \/ buffer.pending_autoindent

OnlySelectionsForget ==
    [][Served /\ ~Served' =>
         \/ budget'["selections"] < budget["selections"]
         \/ buffer.language = NoLanguage]_vars

(* When nobody changes the buffer any more, parsing and indenting come to  *)
(* an end: an indentation is parsed, but does not ask for another one.     *)
SettlesDown ==
    <>[](buffer.parse_status = "Idle" /\ ~buffer.pending_autoindent)

(* A buffer that says it has no unsaved edits shows the text it takes for  *)
(* saved, and that is what is in the file as long as the file is not       *)
(* newer (is_dirty, did_save, did_reload).                                 *)
ShowsFile ==
    /\ ~IsDirty(buffer) => ~HasEditsSince(buffer, buffer.saved_version)
    /\ ~buffer.has_conflict /\ buffer.saved_mtime = disk.mtime =>
          TextAt(buffer, buffer.saved_version) = disk.content

(* A save ends with an mtime that is not, or not only, its own: another    *)
(* save or somebody else wrote the file between its opening and the look   *)
(* at its mtime.                                                           *)
OvertakenSaveEnds ==
    \E save \in saves :
        /\ save.stage = "statted" /\ save.overtaken
        /\ saves' = saves \ {save}
        /\ buffer'.saved_version = save.version /\ buffer'.saved_mtime = save.mtime

(* A reload ends and sets saved_version to prev_version because the edits  *)
(* it raced with came to nothing, or its edit has auto-indents applied     *)
(* that were waiting.                                                      *)
ReloadEndsAstray ==
    /\ reload.stage = "diffed"
    /\ reload' = NoReload
    /\ \/ /\ buffer.version.n # reload.base_version.n
          /\ buffer.version.text = reload.base_version.text
          /\ ~reload.edits
       \/ buffer.autoindent_requests /\ ~buffer'.autoindent_requests

(* Edits that race with saves, reloads and writes of others are not taken  *)
(* for saved by any other step than these two.                             *)
CleanMeansOnDisk ==
    [][ShowsFile /\ ~ShowsFile' => OvertakenSaveEnds \/ ReloadEndsAstray]_vars
=============================================================================
