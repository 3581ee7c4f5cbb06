----------------------------- MODULE Download -----------------------------
(***************************************************************************)
(* Fetching a model file (core/src/download.rs): ensure_model checks what  *)
(* is on disk, fetches the rest into <file>.part, resuming, checks the     *)
(* whole against its sha256 and renames it into place.  The host may break *)
(* off, ignore Range, send wrong bytes or too many; the disk may refuse;   *)
(* the reader may cancel; the program may be killed at any step.  Names    *)
(* are directory entries, so a file that was renamed or removed is still   *)
(* written by whoever opened it.                                           *)
(*                                                                         *)
(* A file's contents are its blocks, each the right one for its place or   *)
(* not; the checksum is right exactly when all Size blocks are.            *)
(***************************************************************************)
EXTENDS Naturals, Sequences

CONSTANTS
    Loaders,   \* calls of download_model
    Files,     \* files the disk has room for
    NoFile,
    Size,      \* spec.bytes, in blocks
    MaxLength, \* bound: the blocks a host sends, or an earlier run has left, at most
    MaxFaults  \* bound: broken connections, wrong blocks, disk errors, cancels, kills

ASSUME DownloadAssumption ==
    /\ NoFile \notin Files
    /\ Size \in Nat \ {0}
    /\ MaxLength \in Nat
    /\ MaxLength > Size
    /\ MaxFaults \in Nat

VARIABLES
    part,     \* the file named <file>.part
    full,     \* the file named <file>
    content,  \* what each file holds
    cancel,   \* AppState.download_cancel
    pc,       \* where each call stands
    have,     \* the length of the partial when the request was made
    handle,   \* the file each call has open for writing
    done,     \* its position in that file
    faults    \* how much has gone wrong so far

diskVars == <<part, full, content>>
callVars == <<pc, have, handle, done>>
vars == <<diskVars, cancel, callVars, faults>>

Block == {"right", "wrong"}
Whole == [i \in 1 .. Size |-> "right"]
IsWhole(f) == f # NoFile /\ content[f] = Whole

Length(f) == IF f = NoFile THEN 0 ELSE Len(content[f])

\* A block written at an offset; what lies between the end and it is a hole.
Put(blocks, offset, b) ==
    [i \in 1 .. (IF offset < Len(blocks) THEN Len(blocks) ELSE offset + 1) |->
        IF i = offset + 1 THEN b ELSE IF i <= Len(blocks) THEN blocks[i] ELSE "wrong"]

Unused == Files \ ({part, full} \cup {handle[l] : l \in Loaders})

Running == {"checking", "fetching", "asking", "resuming", "creating", "reading",
            "hashing", "placing"}

\* `have` is where a request resumes: never at the end of the file or past it.
DownloadTypeOK ==
    /\ part \in Files \cup {NoFile}
    /\ full \in Files \cup {NoFile}
    /\ content \in [Files -> Seq(Block)]
    /\ cancel \in BOOLEAN
    /\ pc \in [Loaders -> {"idle", "done", "failed"} \cup Running]
    /\ have \in [Loaders -> 0 .. Size - 1]
    /\ handle \in [Loaders -> Files \cup {NoFile}]
    /\ done \in [Loaders -> Nat]
    /\ faults \in 0 .. MaxFaults

\* What an earlier version, a crash or a bad disk may have left: a partial of any
\* length and content, even too long, and a file that is or is not the right one.
Left ==
    {[i \in 1 .. n |-> IF i < n THEN "right" ELSE b] : n \in 1 .. MaxLength, b \in Block}

Init ==
    /\ \E p, f \in Files, cp, cf \in Left :
        /\ p # f
        /\ part \in {p, NoFile}
        /\ full \in {f, NoFile}
        /\ content = [g \in Files |->
                        IF g = part THEN cp ELSE IF g = full THEN cf ELSE <<>>]
    /\ cancel = FALSE
    /\ pc = [l \in Loaders |-> "idle"]
    /\ have = [l \in Loaders |-> 0]
    /\ handle = [l \in Loaders |-> NoFile]
    /\ done = [l \in Loaders |-> 0]
    /\ faults = 0

Fault == faults < MaxFaults /\ faults' = faults + 1

Moves(l, from, to) ==
    /\ pc[l] = from
    /\ pc' = [pc EXCEPT ![l] = to]

\* Whatever a call has open is closed when it returns.
Fails(l, from) ==
    /\ Moves(l, from, "failed")
    /\ handle' = [handle EXCEPT ![l] = NoFile]

-----------------------------------------------------------------------------
(* download_model, ensure_model *)

Starts(l) ==
    /\ pc[l] \in {"idle", "failed", "done"}
    /\ pc' = [pc EXCEPT ![l] = "checking"]
    /\ cancel' = FALSE
    /\ UNCHANGED <<diskVars, have, handle, done, faults>>

\* Variant: a file that is there is taken for the right one.
TrustsTheFull(l) ==
    /\ Moves(l, "checking", IF full # NoFile THEN "done" ELSE "fetching")
    /\ UNCHANGED <<diskVars, cancel, have, handle, done, faults>>

\* A file that is there and right costs no network access; one that is there and
\* wrong is removed.
ChecksTheFull(l) ==
    /\ Moves(l, "checking", IF IsWhole(full) THEN "done" ELSE "fetching")
    /\ full' = IF IsWhole(full) THEN full ELSE NoFile
    /\ UNCHANGED <<part, content, cancel, have, handle, done, faults>>

\* Variant: a partial that is too long is resumed like any other.
LooksWithoutALimit(l) ==
    /\ pc[l] = "fetching"
    /\ pc' = [pc EXCEPT ![l] = IF Length(part) = Size THEN "hashing" ELSE "asking"]
    /\ have' = [have EXCEPT ![l] = IF Length(part) = Size THEN 0 ELSE Length(part)]
    /\ UNCHANGED <<diskVars, cancel, handle, done, faults>>

\* remove_file fails, and nobody looks: the wrong file stays for the rename to
\* replace, the partial that is too long is looked at again, the rejected one is
\* left for the next call.
RemovalFails(l) ==
    /\ Fault
    /\ \/ /\ full # NoFile /\ ~IsWhole(full)
          /\ Moves(l, "checking", "fetching")
          /\ UNCHANGED handle
       \/ /\ Length(part) > Size
          /\ Moves(l, "fetching", "fetching")
          /\ UNCHANGED handle
       \/ /\ part # NoFile /\ ~IsWhole(part)
          /\ Fails(l, "hashing")
    /\ UNCHANGED <<diskVars, cancel, have, done>>

\* A file that cannot be read, opened, created or renamed: the call fails and the
\* disk stays as it was.
DiskFails(l) ==
    /\ Fault
    /\ \E from \in {"checking", "resuming", "creating", "hashing", "placing"} : Fails(l, from)
    /\ UNCHANGED <<diskVars, cancel, have, done>>

\* fetch: what the partial holds decides.  One that is too long is removed and
\* looked at again.
LooksAtThePart(l) ==
    /\ pc[l] = "fetching"
    /\ pc' = [pc EXCEPT ![l] = CASE Length(part) > Size -> "fetching"
                                 [] Length(part) = Size -> "hashing"
                                 [] OTHER -> "asking"]
    /\ part' = IF Length(part) > Size THEN NoFile ELSE part
    /\ have' = [have EXCEPT ![l] = IF Length(part) < Size THEN Length(part) ELSE 0]
    /\ UNCHANGED <<full, content, cancel, handle, done, faults>>

\* 206 to a Range request, or 200 and the whole file.
HostAnswers(l) ==
    /\ pc[l] = "asking"
    /\ \E to \in IF have[l] > 0 THEN {"resuming", "creating"} ELSE {"creating"} :
        pc' = [pc EXCEPT ![l] = to]
    /\ UNCHANGED <<diskVars, cancel, have, handle, done, faults>>

\* The host is not reached, or offers a file of another size.
HostRefuses(l) ==
    /\ Fault
    /\ Fails(l, "asking")
    /\ UNCHANGED <<diskVars, cancel, have, done>>

Resumes(l) ==
    /\ part # NoFile
    /\ Moves(l, "resuming", "reading")
    /\ handle' = [handle EXCEPT ![l] = part]
    /\ done' = [done EXCEPT ![l] = have[l]]
    /\ UNCHANGED <<diskVars, cancel, have, faults>>

\* The partial has gone since it was measured.
CannotResume(l) ==
    /\ part = NoFile
    /\ Fails(l, "resuming")
    /\ UNCHANGED <<diskVars, cancel, have, done, faults>>

\* File::create: a file that is there is emptied, and stays the same file.
Creates(l) ==
    /\ Moves(l, "creating", "reading")
    /\ \E f \in IF part = NoFile THEN Unused ELSE {part} :
        /\ part' = f
        /\ content' = [content EXCEPT ![f] = <<>>]
        /\ handle' = [handle EXCEPT ![l] = f]
    /\ done' = [done EXCEPT ![l] = 0]
    /\ UNCHANGED <<full, cancel, have, faults>>

-----------------------------------------------------------------------------
(* The loop of fetch: the flag, a read, a write. *)

\* Variant: cancelling cleans up.
IsCancelledAndRemoved(l) ==
    /\ cancel
    /\ Fails(l, "reading")
    /\ part' = NoFile
    /\ UNCHANGED <<full, content, cancel, have, done, faults>>

IsCancelled(l) ==
    /\ cancel
    /\ Fails(l, "reading")
    /\ UNCHANGED <<diskVars, cancel, have, done, faults>>

\* Whatever comes is written, past the size of the file too.
Receives(l, b) ==
    /\ pc[l] = "reading"
    /\ ~cancel
    /\ done[l] < MaxLength
    /\ content' = [content EXCEPT ![handle[l]] = Put(@, done[l], b)]
    /\ done' = [done EXCEPT ![l] = @ + 1]
    /\ UNCHANGED <<part, full, cancel, pc, have, handle>>

ReceivesRight(l) == done[l] < Size /\ Receives(l, "right") /\ UNCHANGED faults
ReceivesWrong(l) == Receives(l, "wrong") /\ Fault

\* The connection breaks, or ends before the last byte, or the disk is full.
BreaksOff(l) ==
    /\ ~cancel
    /\ Fault
    /\ Fails(l, "reading")
    /\ UNCHANGED <<diskVars, cancel, have, done>>

\* The length is compared when the host is through: the partial stays too long.
SentTooMuch(l) ==
    /\ ~cancel
    /\ done[l] > Size
    /\ Fails(l, "reading")
    /\ UNCHANGED <<diskVars, cancel, have, done, faults>>

ReadsToTheEnd(l) ==
    /\ ~cancel
    /\ done[l] = Size
    /\ Moves(l, "reading", "hashing")
    /\ handle' = [handle EXCEPT ![l] = NoFile]
    /\ UNCHANGED <<diskVars, cancel, have, done, faults>>

\* Variant: a length check takes the checksum's place.
ChecksTheLength(l) ==
    /\ Length(part) = Size
    /\ Moves(l, "hashing", "placing")
    /\ UNCHANGED <<diskVars, cancel, have, handle, done, faults>>

ChecksumIsRight(l) ==
    /\ IsWhole(part)
    /\ Moves(l, "hashing", "placing")
    /\ UNCHANGED <<diskVars, cancel, have, handle, done, faults>>

\* Variant: the rejected file is kept.
ChecksumIsWrongAndKept(l) ==
    /\ ~IsWhole(part)
    /\ Fails(l, "hashing")
    /\ UNCHANGED <<diskVars, cancel, have, done, faults>>

\* A file that does not match is deleted; one that is not there cannot be read.
ChecksumIsWrong(l) ==
    /\ ~IsWhole(part)
    /\ Fails(l, "hashing")
    /\ part' = NoFile
    /\ UNCHANGED <<full, content, cancel, have, done, faults>>

Places(l) ==
    /\ part # NoFile
    /\ Moves(l, "placing", "done")
    /\ full' = part
    /\ part' = NoFile
    /\ UNCHANGED <<content, cancel, have, handle, done, faults>>

CannotPlace(l) ==
    /\ part = NoFile
    /\ Fails(l, "placing")
    /\ UNCHANGED <<diskVars, cancel, have, done, faults>>

-----------------------------------------------------------------------------
\* cancel_download
PressesStop ==
    /\ ~cancel
    /\ cancel' = TRUE
    /\ Fault
    /\ UNCHANGED <<diskVars, callVars>>

\* Somebody clears the models folder of half-finished files.
PartIsRemoved ==
    /\ part # NoFile
    /\ part' = NoFile
    /\ Fault
    /\ UNCHANGED <<full, content, cancel, callVars>>

\* The program is killed and started again: the disk is what it was.
IsKilled ==
    /\ Fault
    /\ cancel' = FALSE
    /\ pc' = [l \in Loaders |-> "idle"]
    /\ have' = [l \in Loaders |-> 0]
    /\ handle' = [l \in Loaders |-> NoFile]
    /\ done' = [l \in Loaders |-> 0]
    /\ UNCHANGED diskVars

LoaderStep(l) ==
    \/ Starts(l)
    \/ ChecksTheFull(l)
    \/ LooksAtThePart(l)
    \/ RemovalFails(l)
    \/ DiskFails(l)
    \/ HostAnswers(l)
    \/ HostRefuses(l)
    \/ Resumes(l)
    \/ CannotResume(l)
    \/ Creates(l)
    \/ IsCancelled(l)
    \/ ReceivesRight(l)
    \/ ReceivesWrong(l)
    \/ BreaksOff(l)
    \/ SentTooMuch(l)
    \/ ReadsToTheEnd(l)
    \/ ChecksumIsRight(l)
    \/ ChecksumIsWrong(l)
    \/ Places(l)
    \/ CannotPlace(l)

Next ==
    \/ \E l \in Loaders : LoaderStep(l)
    \/ PressesStop
    \/ PartIsRemoved
    \/ IsKilled

\* The reader presses Download again until the file is there.
Spec == Init /\ [][Next]_vars /\ \A l \in Loaders : WF_vars(LoaderStep(l))
-----------------------------------------------------------------------------
\* "Atomic rename: the full name never exists holding half a file"
\* (download.rs:262): what is renamed into place is whole, however often the
\* download was cut, cancelled, resumed or killed on the way.
FullNameIsNeverHalfAFile ==
    [][full' # full /\ full' # NoFile => content'[full'] = Whole]_vars

\* A call that returns Ok leaves the right file behind, not merely one it once
\* measured (download.rs:205-210, 22-23).
DoneMeansWhole == \A l \in Loaders : pc[l] = "done" => IsWhole(full)

\* Nothing that can be left on disk, and no finite number of faults, keeps the
\* model from ever arriving: a partial that cannot become the right file is
\* thrown away and not resumed for ever (download.rs:293-300, 250-259).
ModelArrives == <>[]IsWhole(full)

\* A cut, a cancel or a kill costs none of what was fetched: the partial shrinks
\* only where the host ignores Range, or is removed as too long or wrong, or
\* becomes the model (docs/DECISIONS.md:171).
PartialIsKept ==
    [][ Length(part)' < Length(part) =>
        \/ Length(part) > Size
        \/ PartIsRemoved
        \/ \E l \in Loaders : pc[l] \in {"creating", "hashing", "placing"} /\ pc'[l] # pc[l] ]_vars
=============================================================================
