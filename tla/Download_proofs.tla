--------------------------- MODULE Download_proofs ---------------------------
(***************************************************************************)
(* What fetching a model keeps, for a file of any size, any disk found,    *)
(* and any number of faults.  Types and the keeping of the partial hold    *)
(* for any number of downloads at once.  That what is in place is whole    *)
(* holds for one at a time, which the theorems say: OneLoader.             *)
(***************************************************************************)
EXTENDS Download, TLAPS

OneLoader == \A l, m \in Loaders : l = m

\* A call that reads has a file open.
ReadersHaveAFile == \A l \in Loaders : pc[l] = "reading" => handle[l] \in Files

DiskInv == DownloadTypeOK /\ ReadersHaveAFile

\* What passed the checksum is still the right one when it is renamed, unless it
\* was removed meanwhile.
CheckedIsWhole == \A l \in Loaders : pc[l] = "placing" => part = NoFile \/ IsWhole(part)

\* Only a call that reads has a file open.
WritersRead == \A l \in Loaders : handle[l] # NoFile => pc[l] = "reading"

WholeInv == CheckedIsWhole /\ DoneMeansWhole /\ WritersRead

-----------------------------------------------------------------------------
(* Lemmas on sequences of blocks.                                            *)

\* Writing a block does not shorten a file, and lengthens it to no more than the
\* end of the block.
LEMMA PutFits ==
    ASSUME NEW blocks \in Seq(Block), NEW offset \in Nat, NEW b \in Block
    PROVE  /\ Put(blocks, offset, b) \in Seq(Block)
           /\ Len(Put(blocks, offset, b)) >= Len(blocks)
           /\ \/ Len(Put(blocks, offset, b)) = Len(blocks)
              \/ Len(Put(blocks, offset, b)) = offset + 1
  <1>. DEFINE n == IF offset < Len(blocks) THEN Len(blocks) ELSE offset + 1
  <1>1. n \in Nat /\ n >= Len(blocks) /\ (n = Len(blocks) \/ n = offset + 1)
    OBVIOUS
  <1>2. \A i \in 1 .. Len(blocks) : blocks[i] \in Block
    OBVIOUS
  <1>3. Put(blocks, offset, b) \in [1 .. n -> Block]
    BY <1>2 DEF Put, Block
  <1>. HIDE DEF n
  <1>4. Put(blocks, offset, b) \in Seq(Block) /\ Len(Put(blocks, offset, b)) = n
    BY <1>1, <1>3
  <1> QED
    BY <1>1, <1>4

LEMMA EmptyFile == <<>> \in Seq(Block) /\ Len(<<>>) = 0
  OBVIOUS

\* What an earlier run may have left is a file of blocks.
LEMMA LeftFits ==
    ASSUME NEW blocks \in Left
    PROVE  blocks \in Seq(Block)
  <1>1. PICK n \in 1 .. MaxLength, b \in Block :
           blocks = [i \in 1 .. n |-> IF i < n THEN "right" ELSE b]
    BY DEF Left
  <1>2. n \in Nat
    BY DownloadAssumption
  <1>3. blocks \in [1 .. n -> Block]
    BY <1>1 DEF Block
  <1> QED
    BY <1>2, <1>3

-----------------------------------------------------------------------------
(* Types.                                                                    *)

LEMMA Bounds ==
    /\ 0 \in 0 .. Size - 1 /\ 0 \in 0 .. MaxFaults
    /\ 0 \in Nat /\ Size \in Nat /\ MaxFaults \in Nat
  BY DownloadAssumption

LEMMA DiskInvInit == Init => DiskInv
  <1> SUFFICES ASSUME Init
               PROVE  DiskInv
    OBVIOUS
  <1>1. PICK p \in Files, f \in Files, cp \in Left, cf \in Left :
           /\ part \in {p, NoFile}
           /\ full \in {f, NoFile}
           /\ content = [g \in Files |-> IF g = part THEN cp ELSE IF g = full THEN cf ELSE <<>>]
    BY DEF Init
  <1>2. \A g \in Files : content[g] \in Seq(Block)
    BY <1>1, LeftFits, EmptyFile
  <1>3. content \in [Files -> Seq(Block)]
    BY <1>1, <1>2
  <1>4. /\ cancel \in BOOLEAN /\ faults \in 0 .. MaxFaults
        /\ have \in [Loaders -> 0 .. Size - 1] /\ done \in [Loaders -> Nat]
        /\ handle \in [Loaders -> Files \cup {NoFile}]
    BY Bounds, Zenon DEF Init
  <1>5. pc \in [Loaders -> {"idle", "done", "failed"} \cup Running] /\ ReadersHaveAFile
    BY DEF Init, ReadersHaveAFile
  <1>6. part \in Files \cup {NoFile} /\ full \in Files \cup {NoFile}
    BY <1>1
  <1> QED
    BY <1>3, <1>4, <1>5, <1>6 DEF DiskInv, DownloadTypeOK

LEMMA LoaderStepKeepsDisk ==
    ASSUME DiskInv, NEW l \in Loaders, LoaderStep(l)
    PROVE  DiskInv'
  <1> USE DownloadAssumption
      DEF DiskInv, DownloadTypeOK, ReadersHaveAFile, Running, Moves, Fails, diskVars, Fault
  <1>1. CASE Starts(l)
    BY <1>1 DEF Starts
  <1>2. CASE ChecksTheFull(l)
    BY <1>2 DEF ChecksTheFull
  <1>3. CASE LooksAtThePart(l)
    <2>1. Length(part) \in Nat
      BY DEF Length
    <2>2. have' \in [Loaders -> 0 .. Size - 1]
      BY <1>3, <2>1 DEF LooksAtThePart
    <2>3. pc' \in [Loaders -> {"idle", "done", "failed"} \cup Running]
          /\ \A m \in Loaders : pc'[m] = "reading" => pc[m] = "reading"
      BY <1>3, <2>1 DEF LooksAtThePart
    <2> QED
      BY <1>3, <2>2, <2>3 DEF LooksAtThePart
  <1>4. CASE HostAnswers(l)
    BY <1>4 DEF HostAnswers
  <1>5. CASE HostRefuses(l)
    BY <1>5 DEF HostRefuses
  <1>6. CASE Resumes(l)
    BY <1>6 DEF Resumes
  <1>7. CASE CannotResume(l)
    BY <1>7 DEF CannotResume
  <1>8. CASE Creates(l)
    <2>1. PICK f \in Files : /\ part' = f
                             /\ content' = [content EXCEPT ![f] = <<>>]
                             /\ handle' = [handle EXCEPT ![l] = f]
      BY <1>8 DEF Creates, Unused
    <2>2. content' \in [Files -> Seq(Block)]
      BY <2>1, EmptyFile
    <2> QED
      BY <1>8, <2>1, <2>2 DEF Creates
  <1>9. CASE IsCancelled(l)
    BY <1>9 DEF IsCancelled
  <1>10. ASSUME NEW b \in Block, Receives(l, b), faults' \in 0 .. MaxFaults
         PROVE  DiskInv'
    <2>1. /\ handle[l] \in Files
          /\ content' = [content EXCEPT ![handle[l]] = Put(content[handle[l]], done[l], b)]
          /\ done[l] \in Nat
      BY <1>10 DEF Receives
    <2>2. Put(content[handle[l]], done[l], b) \in Seq(Block)
      <3>1. content[handle[l]] \in Seq(Block)
        BY <2>1
      <3> HIDE DownloadAssumption
               DEF DiskInv, DownloadTypeOK, ReadersHaveAFile, Running, Moves, Fails, diskVars,
                   Fault
      <3> QED
        BY <2>1, <3>1, PutFits
    <2>3. content' \in [Files -> Seq(Block)]
      BY <2>1, <2>2
    <2> QED
      BY <1>10, <2>1, <2>3 DEF Receives
  <1>11. CASE ReceivesRight(l)
    BY <1>10, <1>11 DEF ReceivesRight, Block
  <1>12. CASE ReceivesWrong(l)
    BY <1>10, <1>12 DEF ReceivesWrong, Block
  <1>13. CASE BreaksOff(l)
    BY <1>13 DEF BreaksOff
  <1>14. CASE ReadsToTheEnd(l) \/ SentTooMuch(l)
    BY <1>14 DEF ReadsToTheEnd, SentTooMuch
  <1>15. CASE ChecksumIsRight(l) \/ ChecksumIsWrong(l)
    BY <1>15 DEF ChecksumIsRight, ChecksumIsWrong
  <1>16. CASE Places(l)
    BY <1>16 DEF Places
  <1>17. CASE CannotPlace(l)
    BY <1>17 DEF CannotPlace
  <1>18. CASE RemovalFails(l)
    <2>1. pc' \in [Loaders -> {"idle", "done", "failed"} \cup Running]
          /\ \A m \in Loaders : pc'[m] = "reading" => pc[m] = "reading"
      BY <1>18 DEF RemovalFails
    <2>2. \A m \in Loaders : pc'[m] = "reading" => handle'[m] = handle[m]
      BY <1>18 DEF RemovalFails
    <2>3. \/ handle' = handle
          \/ handle' = [handle EXCEPT ![l] = NoFile]
      BY <1>18 DEF RemovalFails
    <2>4. handle' \in [Loaders -> Files \cup {NoFile}]
      BY <2>3
    <2>5. faults' \in 0 .. MaxFaults
      BY <1>18 DEF RemovalFails
    <2> QED
      BY <1>18, <2>1, <2>2, <2>4, <2>5 DEF RemovalFails
  <1>19. CASE DiskFails(l)
    <2>1. PICK from \in {"checking", "resuming", "creating", "hashing", "placing"} :
            Fails(l, from)
      BY <1>19 DEF DiskFails
    <2> QED
      BY <1>19, <2>1 DEF DiskFails
  <1> QED
    BY <1>1, <1>2, <1>3, <1>4, <1>5, <1>6, <1>7, <1>8, <1>9, <1>11, <1>12, <1>13, <1>14, <1>15,
       <1>16, <1>17, <1>18, <1>19 DEF LoaderStep

LEMMA DiskInvNext == DiskInv /\ [Next]_vars => DiskInv'
  <1> SUFFICES ASSUME DiskInv, [Next]_vars
               PROVE  DiskInv'
    OBVIOUS
  <1>1. CASE PressesStop \/ PartIsRemoved
    <2>1. faults' \in 0 .. MaxFaults
      BY <1>1, Bounds DEF PressesStop, PartIsRemoved, Fault, DiskInv, DownloadTypeOK
    <2>2. /\ UNCHANGED callVars /\ UNCHANGED <<full, content>>
          /\ part' \in {part, NoFile} /\ cancel' \in BOOLEAN
      BY <1>1 DEF PressesStop, PartIsRemoved, diskVars, DiskInv, DownloadTypeOK
    <2> QED
      BY <2>1, <2>2 DEF DiskInv, DownloadTypeOK, ReadersHaveAFile, callVars
  <1>3. CASE UNCHANGED vars
    BY <1>3 DEF DiskInv, DownloadTypeOK, ReadersHaveAFile, vars, diskVars, callVars
  <1>2. CASE IsKilled
    <2>1. /\ have' \in [Loaders -> 0 .. Size - 1] /\ done' \in [Loaders -> Nat]
          /\ handle' \in [Loaders -> Files \cup {NoFile}] /\ cancel' \in BOOLEAN
      BY <1>2, Bounds, Zenon DEF IsKilled
    <2>a. faults' \in 0 .. MaxFaults
      BY <1>2, Bounds DEF IsKilled, Fault, DiskInv, DownloadTypeOK
    <2>2. pc' \in [Loaders -> {"idle", "done", "failed"} \cup Running] /\ ReadersHaveAFile'
      BY <1>2 DEF IsKilled, ReadersHaveAFile
    <2>3. UNCHANGED diskVars
      BY <1>2 DEF IsKilled
    <2> QED
      BY <2>1, <2>a, <2>2, <2>3 DEF DiskInv, DownloadTypeOK, diskVars
  <1> QED
    BY <1>1, <1>2, <1>3, LoaderStepKeepsDisk DEF Next

LEMMA DiskHolds == Spec => []DiskInv
  BY DiskInvInit, DiskInvNext, PTL DEF Spec

-----------------------------------------------------------------------------
(* One download at a time.                                                   *)

LEMMA WholeInvInit == Init => WholeInv
  BY DownloadAssumption DEF Init, WholeInv, CheckedIsWhole, DoneMeansWhole, WritersRead

LEMMA LoaderStepKeepsWhole ==
    ASSUME OneLoader, DiskInv, WholeInv, NEW l \in Loaders, LoaderStep(l)
    PROVE  WholeInv'
  <1>1. \A m \in Loaders : m = l
    BY DEF OneLoader
  <1>2. SUFFICES /\ pc'[l] = "placing" => part' = NoFile \/ IsWhole(part)'
                 /\ pc'[l] = "done" => IsWhole(full)'
                 /\ handle'[l] # NoFile => pc'[l] = "reading"
    BY <1>1 DEF WholeInv, CheckedIsWhole, DoneMeansWhole, WritersRead
  <1>3. /\ pc[l] = "placing" => part = NoFile \/ IsWhole(part)
        /\ pc[l] = "done" => IsWhole(full)
        /\ handle[l] # NoFile => pc[l] = "reading"
        /\ pc \in [Loaders -> {"idle", "done", "failed"} \cup Running]
        /\ handle \in [Loaders -> Files \cup {NoFile}]
    BY DEF WholeInv, CheckedIsWhole, DoneMeansWhole, WritersRead, DiskInv, DownloadTypeOK
  <1> USE <1>3 DEF Moves, Fails, diskVars, IsWhole
  <1>4. CASE Starts(l) \/ ChecksTheFull(l) \/ LooksAtThePart(l) \/ HostAnswers(l)
    BY <1>4 DEF Starts, ChecksTheFull, LooksAtThePart, HostAnswers
  <1>5. CASE HostRefuses(l) \/ Resumes(l) \/ CannotResume(l) \/ Creates(l)
    BY <1>5 DEF HostRefuses, Resumes, CannotResume, Creates
  <1>6. CASE IsCancelled(l) \/ ReceivesRight(l) \/ ReceivesWrong(l) \/ BreaksOff(l)
             \/ ReadsToTheEnd(l) \/ SentTooMuch(l)
    BY <1>6 DEF IsCancelled, ReceivesRight, ReceivesWrong, Receives, BreaksOff, ReadsToTheEnd,
                SentTooMuch
  <1>8. CASE RemovalFails(l) \/ DiskFails(l)
    BY <1>8 DEF RemovalFails, DiskFails
  <1>7. CASE ChecksumIsRight(l) \/ ChecksumIsWrong(l) \/ Places(l) \/ CannotPlace(l)
    BY <1>7 DEF ChecksumIsRight, ChecksumIsWrong, Places, CannotPlace
  <1> QED
    BY <1>4, <1>5, <1>6, <1>7, <1>8 DEF LoaderStep

LEMMA WholeInvNext ==
    ASSUME OneLoader
    PROVE  DiskInv /\ WholeInv /\ [Next]_vars => WholeInv'
  <1> SUFFICES ASSUME DiskInv, WholeInv, [Next]_vars
               PROVE  WholeInv'
    OBVIOUS
  <1>1. CASE PressesStop \/ PartIsRemoved \/ IsKilled \/ UNCHANGED vars
    BY <1>1 DEF WholeInv, CheckedIsWhole, DoneMeansWhole, WritersRead, IsWhole, PressesStop,
                PartIsRemoved, IsKilled, vars, diskVars, callVars
  <1> QED
    BY <1>1, LoaderStepKeepsWhole DEF Next

LEMMA WholeHolds ==
    ASSUME OneLoader
    PROVE  Spec => [](DiskInv /\ WholeInv)
  BY DiskInvInit, DiskInvNext, WholeInvInit, WholeInvNext, PTL DEF Spec

-----------------------------------------------------------------------------
\* Types, with any number of downloads at once and hosts that send what they like: no
\* request asks for what lies at the end of the file or past it (download.rs:290-300).
THEOREM DownloadTypeCorrect == Spec => []DownloadTypeOK
  <1>1. DiskInv => DownloadTypeOK
    BY DEF DiskInv
  <1> QED
    BY <1>1, DiskHolds, PTL

\* A call that returns Ok leaves the right file (download.rs:205-210, 22-23), if
\* there is one download at a time.
THEOREM OkMeansWhole ==
    ASSUME OneLoader
    PROVE  Spec => []DoneMeansWhole
  <1>1. WholeInv => DoneMeansWhole
    BY DEF WholeInv
  <1> QED
    BY <1>1, WholeHolds, PTL

\* The full name is never given to half a file (download.rs:262), if there is one
\* download at a time.
THEOREM RenameIsOfTheWhole ==
    ASSUME OneLoader
    PROVE  Spec => FullNameIsNeverHalfAFile
  <1>1. DiskInv /\ WholeInv /\ [Next]_vars
        => [full' # full /\ full' # NoFile => content'[full'] = Whole]_vars
    <2> SUFFICES ASSUME DiskInv, WholeInv, Next, full' # full, full' # NoFile
                 PROVE  content'[full'] = Whole
      OBVIOUS
    <2>1. PICK l \in Loaders : Places(l)
      BY DEF Next, LoaderStep, Starts, ChecksTheFull, LooksAtThePart, HostAnswers, HostRefuses,
             Resumes, CannotResume, Creates, IsCancelled, ReceivesRight, ReceivesWrong, Receives,
             RemovalFails, DiskFails, SentTooMuch, BreaksOff, ReadsToTheEnd, ChecksumIsRight,
             ChecksumIsWrong, CannotPlace,
             PressesStop, PartIsRemoved, IsKilled, diskVars
    <2> QED
      BY <2>1 DEF Places, Moves, WholeInv, CheckedIsWhole, IsWhole
  <1> QED
    BY <1>1, WholeHolds, PTL DEF Spec, FullNameIsNeverHalfAFile

\* What was fetched is kept (docs/DECISIONS.md:171), with any number of downloads at
\* once: a partial shrinks only where it is emptied, rejected or put in place.
THEOREM WhatWasFetchedIsKept == Spec => PartialIsKept
  <1>1. DiskInv /\ [Next]_vars
        => [ Length(part)' < Length(part) =>
               \/ Length(part) > Size
               \/ PartIsRemoved
               \/ \E l \in Loaders : pc[l] \in {"creating", "hashing", "placing"}
                                     /\ pc'[l] # pc[l] ]_vars
    <2> SUFFICES ASSUME DiskInv, Next, Length(part)' < Length(part), ~PartIsRemoved,
                        ~(Length(part) > Size)
                 PROVE  \E l \in Loaders : pc[l] \in {"creating", "hashing", "placing"}
                                           /\ pc'[l] # pc[l]
      OBVIOUS
    <2>1. pc \in [Loaders -> {"idle", "done", "failed"} \cup Running]
          /\ content \in [Files -> Seq(Block)] /\ part \in Files \cup {NoFile}
          /\ Length(part) \in Nat
      BY DEF DiskInv, DownloadTypeOK, Length
    <2>2. part' # part \/ content' # content
      <3> SUFFICES ASSUME part' = part, content' = content
                   PROVE  Length(part)' = Length(part)
        BY <2>1
      <3> QED
        BY DEF Length
    <2>3. ASSUME NEW l \in Loaders, NEW b \in Block, Receives(l, b)
          PROVE  FALSE
      <3>1. /\ handle[l] \in Files /\ done[l] \in Nat
            /\ content' = [content EXCEPT ![handle[l]] = Put(content[handle[l]], done[l], b)]
            /\ part' = part
        BY <2>3 DEF Receives, DiskInv, DownloadTypeOK, ReadersHaveAFile
      <3>2. Len(Put(content[handle[l]], done[l], b)) >= Len(content[handle[l]])
        BY <2>1, <3>1, PutFits
      <3>3. \A f \in Files : Len(content'[f]) \in Nat /\ Len(content'[f]) >= Len(content[f])
        <4> SUFFICES ASSUME NEW f \in Files
                     PROVE  Len(content'[f]) \in Nat /\ Len(content'[f]) >= Len(content[f])
          OBVIOUS
        <4>1. content'[f] = IF f = handle[l] THEN Put(content[handle[l]], done[l], b)
                            ELSE content[f]
          BY <2>1, <3>1
        <4>2. content[f] \in Seq(Block) /\ content[handle[l]] \in Seq(Block)
          BY <2>1, <3>1
        <4>3. Len(content[f]) \in Nat /\ Len(content[f]) >= Len(content[f])
          BY <4>2
        <4>4. Len(Put(content[handle[l]], done[l], b)) \in Nat
          BY <3>1, <4>2, PutFits
        <4> QED
          BY <3>2, <4>1, <4>3, <4>4
      <3> QED
        BY <2>1, <3>1, <3>3 DEF Length
    <2>4. PICK l \in Loaders : Creates(l) \/ ChecksumIsWrong(l) \/ Places(l)
      BY <2>1, <2>2, <2>3
         DEF Next, LoaderStep, Starts, ChecksTheFull, LooksAtThePart, HostAnswers, HostRefuses,
             Resumes, CannotResume, IsCancelled, ReceivesRight, ReceivesWrong, BreaksOff,
             RemovalFails, DiskFails, SentTooMuch, ReadsToTheEnd, ChecksumIsRight, CannotPlace,
             PressesStop, IsKilled, diskVars, Block
    <2> QED
      BY <2>1, <2>4 DEF Creates, ChecksumIsWrong, Places, Moves, Fails
  <1> QED
    BY <1>1, DiskHolds, PTL DEF Spec, PartialIsKept

-----------------------------------------------------------------------------
(* What arrived stays: with it ModelArrives is left to say that it arrives.   *)

\* No two names are of one file, and nobody writes to what has the full name.
NamesApart ==
    full # NoFile => part # full /\ \A l \in Loaders : handle[l] # full

\* Once the right file has the full name it keeps it.
WholeStays == [][IsWhole(full) => IsWhole(full)']_vars

LEMMA NamesApartInit == Init => NamesApart
  BY DownloadAssumption DEF Init, NamesApart

LEMMA NamesApartNext ==
    ASSUME OneLoader
    PROVE  DiskInv /\ WholeInv /\ NamesApart /\ [Next]_vars => NamesApart'
  <1> SUFFICES ASSUME DiskInv, WholeInv, NamesApart, [Next]_vars
               PROVE  NamesApart'
    OBVIOUS
  <1> USE DEF NamesApart
  <1>1. CASE PressesStop \/ PartIsRemoved \/ IsKilled \/ UNCHANGED vars
    BY <1>1 DEF PressesStop, PartIsRemoved, IsKilled, vars, diskVars, callVars
  <1>2. ASSUME NEW l \in Loaders, LoaderStep(l)
        PROVE  NamesApart'
    <2>1. /\ \A m \in Loaders : m = l
          /\ handle \in [Loaders -> Files \cup {NoFile}]
          /\ handle[l] # NoFile => pc[l] = "reading"
      BY DEF OneLoader, WholeInv, WritersRead, DiskInv, DownloadTypeOK
    <2> SUFFICES full' # NoFile => part' # full' /\ handle'[l] # full'
      BY <2>1
    <2> USE <2>1 DEF Moves, Fails, diskVars
    <2>2. CASE Starts(l) \/ ChecksTheFull(l) \/ LooksAtThePart(l) \/ HostAnswers(l)
      BY <2>2 DEF Starts, ChecksTheFull, LooksAtThePart, HostAnswers
    <2>3. CASE HostRefuses(l) \/ Resumes(l) \/ CannotResume(l) \/ RemovalFails(l) \/ DiskFails(l)
      BY <2>3 DEF HostRefuses, Resumes, CannotResume, RemovalFails, DiskFails
    <2>4. CASE Creates(l)
      BY <2>4 DEF Creates, Unused
    <2>5. CASE IsCancelled(l) \/ ReceivesRight(l) \/ ReceivesWrong(l) \/ BreaksOff(l)
               \/ ReadsToTheEnd(l) \/ SentTooMuch(l)
      BY <2>5 DEF IsCancelled, ReceivesRight, ReceivesWrong, Receives, BreaksOff, ReadsToTheEnd,
                  SentTooMuch
    <2>6. CASE ChecksumIsRight(l) \/ ChecksumIsWrong(l) \/ Places(l) \/ CannotPlace(l)
      BY <2>6 DEF ChecksumIsRight, ChecksumIsWrong, Places, CannotPlace
    <2> QED
      BY <1>2, <2>2, <2>3, <2>4, <2>5, <2>6 DEF LoaderStep
  <1> QED
    BY <1>1, <1>2 DEF Next

\* The right file, once in place, is neither removed, nor written to, nor replaced by
\* another (download.rs:205-222), if there is one download at a time: the lasting half
\* of ModelArrives.
THEOREM WhatArrivedStays ==
    ASSUME OneLoader
    PROVE  Spec => WholeStays
  <1>1. DiskInv /\ WholeInv /\ NamesApart /\ [Next]_vars
        => [IsWhole(full) => IsWhole(full)']_vars
    <2> SUFFICES ASSUME DiskInv, WholeInv, NamesApart, Next, IsWhole(full)
                 PROVE  IsWhole(full)'
      OBVIOUS
    <2> USE DEF IsWhole
    <2>1. full \in Files /\ content \in [Files -> Seq(Block)]
      BY DEF DiskInv, DownloadTypeOK
    <2>2. CASE PressesStop \/ PartIsRemoved \/ IsKilled
      BY <2>2 DEF PressesStop, PartIsRemoved, IsKilled, diskVars
    <2>3. ASSUME NEW l \in Loaders, LoaderStep(l)
          PROVE  IsWhole(full)'
      <3> USE DEF Moves, Fails, diskVars
      <3>1. CASE Creates(l)
        <4>1. PICK f \in Files : full # f /\ full' = full /\ content' = [content EXCEPT ![f] = <<>>]
          BY <2>1, <3>1 DEF Creates, Unused, NamesApart, DiskInv, DownloadTypeOK
        <4> QED
          BY <2>1, <4>1
      <3>2. ASSUME NEW b \in Block, Receives(l, b)
            PROVE  IsWhole(full)'
        <4>1. handle[l] # full /\ full' = full
          BY <3>2 DEF Receives, NamesApart
        <4>2. content'[full] = content[full]
          BY <2>1, <3>2, <4>1 DEF Receives
        <4> QED
          BY <4>1, <4>2
      <3>3. CASE ReceivesRight(l) \/ ReceivesWrong(l)
        BY <3>2, <3>3 DEF ReceivesRight, ReceivesWrong, Block
      <3>4. CASE Places(l)
        BY <3>4 DEF Places, WholeInv, CheckedIsWhole
      <3>5. CASE Starts(l) \/ ChecksTheFull(l) \/ LooksAtThePart(l) \/ HostAnswers(l)
        BY <3>5 DEF Starts, ChecksTheFull, LooksAtThePart, HostAnswers
      <3>6. CASE HostRefuses(l) \/ Resumes(l) \/ CannotResume(l) \/ CannotPlace(l)
                 \/ RemovalFails(l) \/ DiskFails(l)
        BY <3>6 DEF HostRefuses, Resumes, CannotResume, CannotPlace, RemovalFails, DiskFails
      <3>7. CASE IsCancelled(l) \/ BreaksOff(l) \/ ReadsToTheEnd(l) \/ SentTooMuch(l)
                 \/ ChecksumIsRight(l) \/ ChecksumIsWrong(l)
        BY <3>7 DEF IsCancelled, BreaksOff, ReadsToTheEnd, SentTooMuch, ChecksumIsRight,
                    ChecksumIsWrong
      <3> QED
        BY <2>3, <3>1, <3>3, <3>4, <3>5, <3>6, <3>7 DEF LoaderStep
    <2> QED
      BY <2>2, <2>3 DEF Next
  <1> QED
    BY <1>1, WholeHolds, NamesApartInit, NamesApartNext, PTL DEF Spec, WholeStays
=============================================================================
