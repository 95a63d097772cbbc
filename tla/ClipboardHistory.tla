--------------------------- MODULE ClipboardHistory ---------------------------
(***************************************************************************)
(* The clipboard history of one device: rows of the database (crates/core/ *)
(* src/store/db.rs) and, for images, files of the cache directory.  Both   *)
(* are written by whoever records an item, the tasks of the runtime        *)
(* (crates/core/src/runtime/clipboard.rs) and the command line tool        *)
(* (crates/cli/src/app.rs), which opens the same database, and by the      *)
(* commands that copy, delete and clear (the runtime, and crates/cli/src/  *)
(* commands/clip.rs).                                                      *)
(*                                                                         *)
(* A statement is atomic.  The workers of one process share a connection,  *)
(* whose lock one of them may keep for several statements; it keeps out    *)
(* the workers of that process only.                                       *)
(***************************************************************************)
EXTENDS Naturals, FiniteSets, FiniteSetsExt

CONSTANTS
    Processes,    \* the application, and runs of the command line tool
    Recorders,    \* tasks that record items
    Commanders,   \* tasks that carry out commands
    ProcessOf,    \* the process of each of them
    Entries,      \* what comes to be recorded, each with an identifier of its own
    Images,       \* the items whose bytes go to a file
    Secrets,      \* texts that are, or look, sensitive
    Stamps,       \* when an item was made, by the clock of the device it comes from
    HistoryLimit, \* settings.clipboard.history_limit
    MaxCommands,  \* bound
    Null

ASSUME HistoryAssumption ==
    /\ Recorders \cap Commanders = {}
    /\ ProcessOf \in [Recorders \cup Commanders -> Processes]
    /\ Images \subseteq Entries /\ Secrets \subseteq Entries \ Images
    /\ Stamps \subseteq Nat /\ HistoryLimit \in Nat /\ MaxCommands \in Nat
    /\ Null \notin Entries \cup Recorders \cup Commanders
    /\ IsFiniteSet(Recorders)

VARIABLES
    rows,       \* clipboard_items, each with its rowid
    files,      \* the items with a file in the cache directory
    worker,     \* what each worker is doing
    lock,       \* who keeps the connection of a process between two statements
    waiting,    \* items that nobody has taken yet
    commands,
    overdue,    \* (history) rows recorded since the last time old ones were deleted,
                \* by recorders that failed to delete any
    overlooked, \* (history) files whose row failed to be written, was deleted by
                \* somebody who had not read it, or that could not be removed
    misjudged   \* (history) rows that were read as old, and not deleted because
                \* another process had made room for them

historyVars == <<rows, files, worker, lock, waiting, commands, overdue, overlooked, misjudged>>

Workers == Recorders \cup Commanders

\* `item` is recorded, or asked for; `doomed` are the files to remove.
Resting == [pc |-> "idle", item |-> Null, at |-> 0, doomed |-> {}]

HistoryInit ==
    /\ rows = {} /\ files = {} /\ waiting = Entries
    /\ worker = [w \in Workers |-> Resting]
    /\ lock = [p \in Processes |-> Null]
    /\ commands = 0 /\ overdue = 0 /\ overlooked = {} /\ misjudged = {}

Kept == {r.item : r \in rows}
Free(w) == lock[ProcessOf[w]] = Null
Goes(w, pc) == worker' = [worker EXCEPT ![w].pc = pc]
Removes(w) ==
    worker' = [worker EXCEPT ![w] = [Resting EXCEPT !.pc = "removing", !.doomed = worker[w].doomed]]

\* ORDER BY created_at DESC, rowid DESC LIMIT.
Newer(r, q) == r.at > q.at \/ (r.at = q.at /\ r.rowid > q.rowid)
IsOld_OffByOne(r) == Cardinality({q \in rows : Newer(q, r)}) > HistoryLimit
IsOld(r) == Cardinality({q \in rows : Newer(q, r)}) >= HistoryLimit
Old == {r.item : r \in {q \in rows : IsOld(q)}}

Without(items) == {r \in rows : r.item \notin items}

\* SQLite gives a new row the identifier after the greatest one.
NextRowid == IF rows = {} THEN 1 ELSE 1 + Max({r.rowid : r \in rows})

------------------------------------------------------------------------------
(* record_clipboard.                                                       *)

\* The item has been received and applied, has been copied here, or was pushed.
Take(w) ==
    \E x \in waiting, t \in Stamps :
        /\ worker[w].pc = "idle"
        /\ waiting' = waiting \ {x}
        /\ worker' = [worker EXCEPT ![w] = [Resting EXCEPT !.pc = "taken", !.item = x, !.at = t]]
        /\ UNCHANGED <<rows, files, lock, commands, overdue, overlooked, misjudged>>

\* What is secret is not stored.
SkipSecret(w) ==
    /\ worker[w].pc = "taken" /\ worker[w].item \in Secrets
    /\ worker' = [worker EXCEPT ![w] = Resting]
    /\ UNCHANGED <<rows, files, lock, waiting, commands, overdue, overlooked, misjudged>>

WriteImage(w) ==
    /\ worker[w].pc = "taken" /\ worker[w].item \in Images
    /\ files' = files \cup {worker[w].item}
    /\ Goes(w, "written")
    /\ UNCHANGED <<rows, lock, waiting, commands, overdue, overlooked, misjudged>>

\* The item is not recorded.  A part of the file may be there.
WriteImageFails(w) ==
    /\ worker[w].pc = "taken" /\ worker[w].item \in Images
    /\ \/ UNCHANGED <<files, overlooked>>
       \/ /\ files' = files \cup {worker[w].item}
          /\ overlooked' = overlooked \cup {worker[w].item}
    /\ worker' = [worker EXCEPT ![w] = Resting]
    /\ UNCHANGED <<rows, lock, waiting, commands, overdue, misjudged>>

\* An image comes after its file, and a secret not at all.  The variant does not look
\* at the text.
Insertable_Secret(r) == \/ r.pc = "taken" /\ r.item \notin Images
                        \/ r.pc = "written"
Insertable(r) == \/ r.pc = "taken" /\ r.item \notin Images \cup Secrets
                 \/ r.pc = "written"
InsertRow(w) ==
    /\ Insertable(worker[w]) /\ Free(w)
    /\ rows' = rows \cup {[item |-> worker[w].item, at |-> worker[w].at, rowid |-> NextRowid]}
    /\ Goes(w, "inserted")
    /\ UNCHANGED <<files, lock, waiting, commands, overdue, overlooked, misjudged>>
InsertFails(w) ==
    /\ Insertable(worker[w]) /\ Free(w)
    /\ overlooked' = overlooked \cup ({worker[w].item} \cap Images)
    /\ worker' = [worker EXCEPT ![w] = Resting]
    /\ UNCHANGED <<rows, files, lock, waiting, commands, overdue, misjudged>>

\* prune_clipboard: what is beyond the limit is read, then what is beyond it is
\* deleted, under one lock.
ReadOld(w) ==
    /\ worker[w].pc = "inserted" /\ Free(w)
    /\ worker' = [worker EXCEPT ![w].pc = "read", ![w].doomed = Old]
    /\ lock' = [lock EXCEPT ![ProcessOf[w]] = w]
    /\ UNCHANGED <<rows, files, waiting, commands, overdue, overlooked, misjudged>>
DeleteOld(w) ==
    /\ worker[w].pc = "read"
    /\ rows' = Without(Old)
    /\ overlooked' = overlooked \cup (Old \ worker[w].doomed)
    /\ misjudged' = misjudged \cup (worker[w].doomed \ Old)
    /\ overdue' = 0
    /\ lock' = [lock EXCEPT ![ProcessOf[w]] = Null]
    /\ Removes(w)
    /\ UNCHANGED <<files, waiting, commands>>

\* Either statement fails: nothing is removed, the item counts as stored.
PruneFails(w) ==
    /\ \/ worker[w].pc = "inserted" /\ Free(w)
       \/ worker[w].pc = "read"
    /\ overdue' = overdue + 1
    /\ lock' = [lock EXCEPT ![ProcessOf[w]] = IF @ = w THEN Null ELSE @]
    /\ worker' = [worker EXCEPT ![w] = Resting]
    /\ UNCHANGED <<rows, files, waiting, commands, overlooked, misjudged>>

------------------------------------------------------------------------------
(* clipboard_delete, clipboard_clear, clipboard_copy, and history of the   *)
(* command line tool.                                                      *)

Asks(w, pc, x, doomed) ==
    /\ worker[w].pc = "idle" /\ Free(w)
    /\ commands < MaxCommands /\ commands' = commands + 1
    /\ worker' = [worker EXCEPT ![w] = [Resting EXCEPT !.pc = pc, !.item = x, !.doomed = doomed]]
    /\ UNCHANGED <<rows, files, lock, waiting, overdue, overlooked, misjudged>>

\* delete_clipboard reads the row, and deletes it: the lock is taken twice.
AskDelete(w) == \E x \in Kept : Asks(w, "deleting", x, {x})
DeleteRow(w) ==
    /\ worker[w].pc = "deleting" /\ Free(w)
    /\ rows' = Without({worker[w].item})
    /\ Removes(w)
    /\ UNCHANGED <<files, lock, waiting, commands, overdue, overlooked, misjudged>>

\* clear_clipboard lists the rows, and deletes them all.
AskClear(w) == Asks(w, "clearing", Null, Kept)
ClearRows(w) ==
    /\ worker[w].pc = "clearing" /\ Free(w)
    /\ rows' = {}
    /\ overlooked' = overlooked \cup (Kept \ worker[w].doomed)
    /\ Removes(w)
    /\ UNCHANGED <<files, lock, waiting, commands, overdue, misjudged>>

\* The files of the rows that were read, one after the other: of an item that is
\* no image there is none.  A failure is ignored.  The variant leaves all alone.
Doomed_None(r) == {}
Doomed(r) == r.doomed \cap Images
RemoveFile(w) ==
    \E x \in Doomed(worker[w]) :
        /\ worker[w].pc = "removing"
        /\ \/ files' = files \ {x} /\ UNCHANGED overlooked
           \/ overlooked' = overlooked \cup {x} /\ UNCHANGED files
        /\ worker' = [worker EXCEPT ![w].doomed = @ \ {x}]
        /\ UNCHANGED <<rows, lock, waiting, commands, overdue, misjudged>>
Finish(w) ==
    /\ worker[w].pc = "removing" /\ Doomed(worker[w]) = {}
    /\ worker' = [worker EXCEPT ![w] = Resting]
    /\ UNCHANGED <<rows, files, lock, waiting, commands, overdue, overlooked, misjudged>>

\* The statement fails: all is left as it is.
CommandFails(w) ==
    /\ worker[w].pc \in {"deleting", "clearing"}
    /\ worker' = [worker EXCEPT ![w] = Resting]
    /\ UNCHANGED <<rows, files, lock, waiting, commands, overdue, overlooked, misjudged>>

\* clipboard_copy reads the row, then (payload_of) the file of an image, and writes
\* the clipboard.  An image whose file is gone by then is an error.
AskCopy(w) == \E x \in Kept : Asks(w, "copying", x, {})
Whole(x) == x \in Images => x \in files
CopyBack(w) ==
    /\ worker[w].pc = "copying" /\ Whole(worker[w].item)
    /\ worker' = [worker EXCEPT ![w] = Resting]
    /\ UNCHANGED <<rows, files, lock, waiting, commands, overdue, overlooked, misjudged>>
CopyFails(w) ==
    /\ worker[w].pc = "copying" /\ ~Whole(worker[w].item)
    /\ worker' = [worker EXCEPT ![w] = Resting]
    /\ UNCHANGED <<rows, files, lock, waiting, commands, overdue, overlooked, misjudged>>

------------------------------------------------------------------------------

RecorderStep(w) ==
    \/ Take(w) \/ SkipSecret(w) \/ WriteImage(w) \/ WriteImageFails(w)
    \/ InsertRow(w) \/ InsertFails(w) \/ ReadOld(w) \/ DeleteOld(w) \/ PruneFails(w)
CommandStep(w) ==
    \/ AskDelete(w) \/ DeleteRow(w) \/ AskClear(w) \/ ClearRows(w)
    \/ AskCopy(w) \/ CopyBack(w) \/ CopyFails(w) \/ CommandFails(w)

HistoryNext ==
    \/ \E w \in Recorders : RecorderStep(w)
    \/ \E w \in Commanders : CommandStep(w)
    \/ \E w \in Workers : RemoveFile(w) \/ Finish(w)

HistorySpec == HistoryInit /\ [][HistoryNext]_historyVars

------------------------------------------------------------------------------
(* Properties.                                                             *)

\* The type invariant.  No item has two rows, and whoever keeps a lock is about
\* to delete old rows.
HistoryTypeOK ==
    /\ rows \subseteq [item : Entries \ Secrets, at : Stamps, rowid : Nat] /\ IsFiniteSet(rows)
    /\ \A r, q \in rows : r.item = q.item \/ r.rowid = q.rowid => r = q
    /\ files \subseteq Images /\ overlooked \subseteq Entries /\ misjudged \subseteq Entries
    /\ waiting \subseteq Entries
    /\ \A w \in Workers :
          /\ worker[w].pc \in {"idle", "taken", "written", "inserted", "read", "removing",
                               "deleting", "clearing", "copying"}
          /\ worker[w].item \in Entries \cup {Null} /\ worker[w].doomed \subseteq Entries
          /\ worker[w].pc = "read" <=> lock[ProcessOf[w]] = w
    /\ commands \in 0..MaxCommands /\ overdue \in Nat

\* The rows and the image files agree, whoever records, prunes, deletes and clears
\* at the same time.  An image of the history can be copied back: the file is
\* written before the row and removed after it, except for a row that
\* prune_clipboard returned and did not delete.  And the cache directory holds no
\* image that nobody will ever remove: the file has a row, or a worker that will
\* write one or is about to remove the file, or it was overlooked.
Handled(w) == worker[w].doomed \cup IF worker[w].pc = "written" THEN {worker[w].item} ELSE {}
ImagesMatch ==
    /\ \A x \in Kept \ misjudged : Whole(x)
    /\ files \subseteq Kept \cup overlooked \cup UNION {Handled(w) : w \in Workers}

\* The history does not outgrow its limit by more than what is being recorded at
\* the moment, and what was recorded since old entries could last be deleted.
HistoryBounded ==
    Cardinality(rows) <=
        HistoryLimit + overdue + Cardinality({w \in Recorders : worker[w].pc \in {"inserted", "read"}})
==============================================================================
