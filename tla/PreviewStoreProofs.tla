-------------------------- MODULE PreviewStoreProofs --------------------------
(***************************************************************************)
(* Proofs about PreviewStore, for every number of processes and documents  *)
(* and every number of crashes and losses of power.                        *)
(***************************************************************************)
EXTENDS PreviewStore, TLAPS

(* The part of the types that the argument needs.                          *)
Typed ==
  /\ dest \in Docs \cup {None} /\ destOnDisk \in Docs \cup {None}
  /\ installed \subseteq Docs
  /\ cached \in [Docs -> Contents] /\ ondisk \in [Docs -> Contents]
  /\ pc \in [Gateways -> PCs]
  /\ doc \in [Gateways -> Docs \cup {None}]
  /\ outcome \in [Docs -> Outcomes]
  /\ \A g \in Gateways : (pc[g] \in WritingPCs) = (doc[g] # None)

(* A document under way belongs to one gateway, and was not tried before.  *)
OneWriter ==
  /\ \A g, h \in Gateways : doc[g] # None /\ doc[g] = doc[h] => g = h
  /\ \A g \in Gateways : doc[g] # None => outcome[doc[g]] = "pending"

(* What has been flushed is whole, what was synchronized is safe.          *)
Progress ==
  \A g \in Gateways :
    /\ pc[g] \in {"flushed", "synced", "closed", "replaced"} => cached[doc[g]] = "whole"
    /\ pc[g] \in {"synced", "closed", "replaced"} => ondisk[doc[g]] = "whole"

(* Every document that was ever shown is whole, on disk as in memory, and  *)
(* is no longer written to; the destination is one of them.                *)
InstalledIsSafe ==
  /\ \A d \in installed : /\ cached[d] = "whole" /\ ondisk[d] = "whole"
                          /\ outcome[d] \notin {"none", "failed"}
  /\ \A g \in Gateways : doc[g] \in installed => pc[g] = "replaced"
  /\ dest \in installed \cup {None} /\ destOnDisk \in installed \cup {None}

(* Documents still to be written, and the outcomes' side of the story.     *)
OutcomesAgree ==
  /\ \A d \in Docs : outcome[d] = "written" => d \in installed
  /\ \A g \in Gateways : pc[g] = "replaced" => doc[g] \in installed

IInv == Typed /\ OneWriter /\ Progress /\ InstalledIsSafe /\ OutcomesAgree

-------------------------------------------------------------------------------
LEMMA InitInvariant ==
  ASSUME Init
  PROVE  IInv
  BY NoneAssumption DEF Init, IInv, Typed, OneWriter, Progress, InstalledIsSafe,
     OutcomesAgree, Outcomes, Contents, PCs, WritingPCs

(* A write begins: its document was never tried, so nobody has it and it   *)
(* was never shown.                                                        *)
LEMMA MakeTempPreserves ==
  ASSUME IInv, NEW g \in Gateways, NEW d \in Docs,
         MakeTemp(g, d) \/ MakeTempFails(g, d)
  PROVE  IInv'
  <1>. USE NoneAssumption DEF IInv
  <1>1. outcome[d] = "none" /\ pc[g] = "idle"
    BY DEF MakeTemp, MakeTempFails, Goes
  <1>2. doc[g] = None /\ d \notin installed /\ \A h \in Gateways : doc[h] # d
    BY <1>1 DEF Typed, WritingPCs, OneWriter, InstalledIsSafe
  <1>3. CASE MakeTemp(g, d)
    <2>. USE <1>3 DEF MakeTemp, Goes, files, disk, reads
    <2>1. Typed'
      BY DEF Typed, Outcomes, Contents, PCs, WritingPCs
    <2>2. OneWriter'
      BY <1>2 DEF Typed, OneWriter
    <2>3. Progress'
      BY <1>2 DEF Typed, Progress
    <2>4. InstalledIsSafe'
      BY <1>2 DEF Typed, InstalledIsSafe
    <2>5. OutcomesAgree'
      BY <1>2 DEF Typed, OutcomesAgree
    <2>. QED BY <2>1, <2>2, <2>3, <2>4, <2>5
  <1>4. CASE MakeTempFails(g, d)
    <2>. USE <1>4 DEF MakeTempFails, files, disk, reads
    <2>1. Typed'
      BY DEF Typed, Outcomes
    <2>2. OneWriter'
      BY <1>2 DEF Typed, OneWriter
    <2>3. Progress' /\ OutcomesAgree'
      BY <1>2 DEF Typed, Progress, OutcomesAgree
    <2>4. InstalledIsSafe'
      BY <1>2 DEF Typed, InstalledIsSafe
    <2>. QED BY <2>1, <2>2, <2>3, <2>4
  <1>. QED BY <1>3, <1>4

(* The text of a document under way changes; that document is not shown.   *)
LEMMA PutPreserves ==
  ASSUME IInv, NEW g \in Gateways, WriteText(g) \/ Flush(g)
  PROVE  IInv'
  <1>. USE NoneAssumption DEF IInv
  <1>1. PICK q \in {"written", "flushed"}, x \in {"part", "whole"} :
          /\ pc[g] \in {"opened", "written"} /\ pc' = [pc EXCEPT ![g] = q]
          /\ cached' = [cached EXCEPT ![doc[g]] = x]
          /\ q = "flushed" => x = "whole"
          /\ UNCHANGED <<dest, disk, doc, outcome, installed>>
    BY DEF WriteText, Flush, Goes, Put
  <1>2. doc[g] \in Docs /\ doc[g] \notin installed
    BY <1>1 DEF Typed, WritingPCs, PCs, InstalledIsSafe
  <1>. USE <1>1, <1>2 DEF disk
  <1>3. Typed'
    BY DEF Typed, Contents, PCs, WritingPCs
  <1>4. OneWriter'
    BY DEF OneWriter
  <1>5. Progress'
    <2>1. \A h \in Gateways \ {g} : doc[h] # doc[g]
      BY DEF OneWriter
    <2>. QED BY <2>1 DEF Typed, Progress
  <1>6. InstalledIsSafe'
    BY DEF Typed, InstalledIsSafe
  <1>7. OutcomesAgree'
    BY DEF Typed, OutcomesAgree
  <1>. QED BY <1>3, <1>4, <1>5, <1>6, <1>7

(* The steps of a write after its text is flushed, and its failures.       *)
LEMMA LaterStepPreserves ==
  ASSUME IInv, NEW g \in Gateways, Fsync(g) \/ Close(g) \/ Replace(g) \/ StepFails(g)
  PROVE  IInv'
  <1>. USE NoneAssumption DEF IInv
  <1>1. pc[g] \in {"opened", "written", "flushed", "synced", "closed"}
    BY DEF Fsync, Close, Replace, StepFails, Goes
  <1>2. doc[g] \in Docs /\ doc[g] \notin installed
    BY <1>1 DEF Typed, WritingPCs, PCs, InstalledIsSafe
  <1>3. \A h \in Gateways \ {g} : doc[h] # doc[g]
    BY <1>2 DEF OneWriter
  <1>4. CASE Fsync(g)
    <2>. USE <1>2, <1>3, <1>4 DEF Fsync, Goes, files, reads
    <2>1. Typed'
      BY DEF Typed, PCs, WritingPCs
    <2>2. OneWriter' /\ OutcomesAgree'
      BY DEF Typed, OneWriter, OutcomesAgree
    <2>3. Progress'
      BY DEF Typed, Progress
    <2>4. InstalledIsSafe'
      BY DEF Typed, InstalledIsSafe
    <2>. QED BY <2>1, <2>2, <2>3, <2>4
  <1>5. CASE Close(g)
    <2>. USE <1>2, <1>5 DEF Close, Goes, files, disk, reads
    <2>1. Typed'
      BY DEF Typed, PCs, WritingPCs
    <2>2. OneWriter' /\ OutcomesAgree' /\ Progress' /\ InstalledIsSafe'
      BY DEF Typed, OneWriter, OutcomesAgree, Progress, InstalledIsSafe
    <2>. QED BY <2>1, <2>2
  <1>6. CASE Replace(g)
    <2>. USE <1>2, <1>3, <1>6 DEF Replace, Rename, Goes, disk, reads
    <2>1. Typed'
      BY DEF Typed, PCs, WritingPCs
    <2>2. OneWriter' /\ OutcomesAgree' /\ Progress'
      BY DEF Typed, OneWriter, OutcomesAgree, Progress
    <2>3. InstalledIsSafe'
      BY DEF Typed, OneWriter, Progress, InstalledIsSafe
    <2>. QED BY <2>1, <2>2, <2>3
  <1>7. CASE StepFails(g)
    <2>. USE <1>2, <1>7 DEF StepFails, files, disk, reads
    <2>1. Typed'
      BY DEF Typed, PCs, WritingPCs
    <2>2. OneWriter' /\ OutcomesAgree' /\ Progress' /\ InstalledIsSafe'
      BY DEF Typed, OneWriter, OutcomesAgree, Progress, InstalledIsSafe
    <2>. QED BY <2>1, <2>2
  <1>. QED BY <1>4, <1>5, <1>6, <1>7

(* A write ends, or its process dies: its outcome is decided once.         *)
LEMMA EndPreserves ==
  ASSUME IInv, NEW g \in Gateways, Unlink(g) \/ UnlinkFails(g) \/ Crash(g)
  PROVE  IInv'
  <1>. USE NoneAssumption DEF IInv
  <1>1. PICK o \in {"written", "failed", "uncleaned", "lost"} :
          /\ outcome' = [d \in Docs |-> IF d = doc[g] THEN o ELSE outcome[d]]
          /\ o = "written" => pc[g] = "replaced"
          /\ o = "failed" => pc[g] = "cleaning"
          /\ pc' = [pc EXCEPT ![g] = "idle"] /\ doc' = [doc EXCEPT ![g] = None]
          /\ UNCHANGED <<dest, cached, disk, installed>>
    <2>1. CASE Unlink(g) \/ UnlinkFails(g)
      BY <2>1 DEF Unlink, UnlinkFails, Finish, End, Typed
    <2>2. CASE Crash(g)
      BY <2>2 DEF Crash, files
    <2>. QED BY <2>1, <2>2
  <1>2. \A h \in Gateways \ {g} : doc[h] # None => doc[h] # doc[g]
    BY DEF OneWriter
  <1>. USE <1>1, <1>2 DEF disk
  <1>3. Typed'
    BY DEF Typed, Outcomes, PCs, WritingPCs
  <1>4. OneWriter'
    BY DEF Typed, OneWriter
  <1>5. Progress'
    BY DEF Typed, Progress
  <1>6. InstalledIsSafe'
    BY DEF Typed, InstalledIsSafe
  <1>7. OutcomesAgree'
    BY DEF Typed, OutcomesAgree
  <1>. QED BY <1>3, <1>4, <1>5, <1>6, <1>7

(* A read moves a gateway that writes nothing.                             *)
LEMMA ReadPreserves ==
  ASSUME IInv, NEW g \in Gateways, OpenPreview(g) \/ PreviewMissing(g) \/ ReadStep(g)
  PROVE  IInv'
  <1>. USE NoneAssumption DEF IInv
  <1>1. /\ pc[g] \in {"idle", "reading"} /\ pc' \in {pc, [pc EXCEPT ![g] = "idle"],
                                                    [pc EXCEPT ![g] = "reading"]}
        /\ UNCHANGED <<dest, cached, disk, doc, outcome, installed>>
    BY DEF OpenPreview, PreviewMissing, ReadStep, ReadPreview, ReadFails, Answer, Goes, files
  <1>2. doc[g] = None
    BY <1>1 DEF Typed, WritingPCs
  <1>. USE <1>1, <1>2 DEF disk
  <1>3. Typed'
    BY DEF Typed, PCs, WritingPCs
  <1>4. OneWriter' /\ Progress' /\ OutcomesAgree'
    BY DEF Typed, OneWriter, Progress, OutcomesAgree
  <1>5. InstalledIsSafe'
    BY DEF Typed, InstalledIsSafe
  <1>. QED BY <1>3, <1>4, <1>5

(* What the disk holds catches up with the memory, or replaces it.         *)
LEMMA DiskPreserves ==
  ASSUME IInv, (\E d \in Docs : WriteBackFile(d)) \/ WriteBackName \/ PowerLoss
  PROVE  IInv'
  <1>. USE NoneAssumption DEF IInv
  <1>1. ASSUME NEW d \in Docs, WriteBackFile(d)
        PROVE  IInv'
    BY <1>1 DEF WriteBackFile, files, reads, Typed, OneWriter, Progress, InstalledIsSafe,
       OutcomesAgree
  <1>2. CASE WriteBackName
    BY <1>2 DEF WriteBackName, files, reads, Typed, OneWriter, Progress, InstalledIsSafe,
       OutcomesAgree
  <1>3. CASE PowerLoss
    <2>. USE <1>3 DEF PowerLoss, disk
    <2>1. Typed'
      BY DEF Typed, Outcomes, PCs, WritingPCs
    <2>2. OneWriter' /\ Progress'
      BY DEF OneWriter, Progress
    <2>3. InstalledIsSafe'
      BY DEF Typed, InstalledIsSafe
    <2>4. OutcomesAgree'
      BY DEF OutcomesAgree
    <2>. QED BY <2>1, <2>2, <2>3, <2>4
  <1>. QED BY <1>1, <1>2, <1>3

THEOREM Invariance == Spec => []IInv
  <1>1. Init => IInv
    BY InitInvariant
  <1>2. IInv /\ [Next]_vars => IInv'
    <2>. SUFFICES ASSUME IInv, [Next]_vars
         PROVE  IInv'
      OBVIOUS
    <2>1. CASE UNCHANGED vars
      BY <2>1 DEF vars, files, disk, reads, IInv, Typed, OneWriter, Progress,
                  InstalledIsSafe, OutcomesAgree
    <2>. QED BY <2>1, MakeTempPreserves, PutPreserves, LaterStepPreserves, EndPreserves,
                ReadPreserves, DiskPreserves DEF Next, WriteStep
  <1>. QED BY <1>1, <1>2, PTL DEF Spec

(* The destination names a complete document at every moment, whatever     *)
(* fails, dies or loses power.                                             *)
THEOREM WholeDestination == Spec => []DestinationIsWhole
  <1>1. IInv => DestinationIsWhole
    BY DEF IInv, InstalledIsSafe, DestinationIsWhole
  <1>. QED BY <1>1, Invariance, PTL

(* A write that returned showed its document, and one that failed at a     *)
(* step never did; the write whose clean-up raised is the only one that    *)
(* may raise with its document shown.                                      *)
THEOREM TruthfulOutcome == Spec => []OutcomeTellsTheTruth
  <1>1. IInv => OutcomeTellsTheTruth
    BY DEF IInv, InstalledIsSafe, OutcomesAgree, OutcomeTellsTheTruth
  <1>. QED BY <1>1, Invariance, PTL

-------------------------------------------------------------------------------
(* A gateway that reads has opened a document that was once shown.         *)
Readers ==
  /\ handle \in [Gateways -> Docs \cup {None}]
  /\ \A g \in Gateways : /\ (pc[g] = "reading") = (handle[g] # None)
                         /\ handle[g] \in installed \cup {None}

LEMMA ReadersPreserved ==
  ASSUME IInv, Readers, [Next]_vars
  PROVE  Readers'
  <1>. USE NoneAssumption DEF IInv, Typed
  <1>1. ASSUME NEW g \in Gateways, NEW d \in Docs, MakeTemp(g, d) \/ MakeTempFails(g, d)
        PROVE  Readers'
    BY <1>1 DEF MakeTemp, MakeTempFails, Goes, reads, Readers
  <1>2. ASSUME NEW g \in Gateways, WriteStep(g)
        PROVE  Readers'
    <2>1. /\ pc[g] \in WritingPCs /\ installed \subseteq installed' /\ handle' = handle
          /\ \E q \in PCs \ {"reading"} : pc' = [pc EXCEPT ![g] = q]
      BY <1>2 DEF WriteStep, WriteText, Flush, Fsync, Close, Replace, StepFails, Unlink,
                  UnlinkFails, Put, Rename, Finish, Goes, reads, PCs, WritingPCs
    <2>. QED BY <2>1 DEF Readers, WritingPCs
  <1>3. ASSUME NEW g \in Gateways, OpenPreview(g)
        PROVE  Readers'
    BY <1>3 DEF OpenPreview, Goes, Readers, InstalledIsSafe
  <1>4. ASSUME NEW g \in Gateways, PreviewMissing(g)
        PROVE  Readers'
    BY <1>4 DEF PreviewMissing, Readers
  <1>5. ASSUME NEW g \in Gateways, ReadStep(g)
        PROVE  Readers'
    BY <1>5 DEF ReadStep, ReadPreview, ReadFails, Answer, Goes, Readers
  <1>6. ASSUME NEW g \in Gateways, Crash(g)
        PROVE  Readers'
    BY <1>6 DEF Crash, Readers
  <1>7. ASSUME NEW d \in Docs, WriteBackFile(d)
        PROVE  Readers'
    BY <1>7 DEF WriteBackFile, reads, Readers
  <1>8. CASE WriteBackName
    BY <1>8 DEF WriteBackName, reads, Readers
  <1>9. CASE PowerLoss
    BY <1>9 DEF PowerLoss, Readers
  <1>10. CASE UNCHANGED vars
    BY <1>10 DEF vars, reads, Readers
  <1>. QED BY <1>1, <1>2, <1>3, <1>4, <1>5, <1>6, <1>7, <1>8, <1>9, <1>10 DEF Next

(* The types that the argument above could do without.                     *)
RestTyped ==
  /\ temps \subseteq Docs /\ littered \subseteq Docs
  /\ reply \in [Gateways -> Replies]
  /\ crashes \in 0 .. MaxCrashes /\ losses \in 0 .. MaxPowerLosses

LEMMA RestPreserved ==
  ASSUME IInv, Readers, RestTyped, [Next]_vars
  PROVE  RestTyped'
  <1>. USE NoneAssumption DEF IInv, Typed, RestTyped
  <1>1. ASSUME NEW g \in Gateways, NEW d \in Docs, MakeTemp(g, d) \/ MakeTempFails(g, d)
        PROVE  RestTyped'
    BY <1>1 DEF MakeTemp, MakeTempFails, files, reads
  <1>2. ASSUME NEW g \in Gateways, WriteStep(g)
        PROVE  RestTyped'
    <2>1. /\ temps' \subseteq temps /\ UNCHANGED <<reply, crashes, losses>>
          /\ littered' \subseteq littered \cup temps
      BY <1>2 DEF WriteStep, WriteText, Flush, Fsync, Close, Replace, StepFails, Unlink,
                  UnlinkFails, Put, Rename, Finish, files, reads
    <2>. QED BY <2>1
  <1>3. ASSUME NEW g \in Gateways, OpenPreview(g) \/ PreviewMissing(g)
        PROVE  RestTyped'
    BY <1>3 DEF OpenPreview, PreviewMissing, files, Replies
  <1>4. ASSUME NEW g \in Gateways, ReadStep(g)
        PROVE  RestTyped'
    <2>1. PICK r \in Replies : Answer(g, r)
      <3>1. pc[g] = "reading"
        BY <1>4 DEF ReadStep, ReadPreview, ReadFails, Answer, Goes
      <3>2. handle[g] \in Docs
        BY <3>1 DEF Readers
      <3>3. CASE ReadFails(g)
        BY <3>3 DEF ReadFails, Replies
      <3>4. CASE ReadPreview(g)
        BY <3>2, <3>4 DEF ReadPreview, Replies
      <3>. QED BY <1>4, <3>3, <3>4 DEF ReadStep
    <2>. QED BY <2>1 DEF Answer, files
  <1>5. ASSUME NEW g \in Gateways, Crash(g)
        PROVE  RestTyped'
    <2>1. crashes' \in 0 .. MaxCrashes
      BY <1>5, BoundsAssumption DEF Crash
    <2>. QED BY <1>5, <2>1 DEF Crash, files, Replies
  <1>6. CASE PowerLoss
    <2>1. losses' \in 0 .. MaxPowerLosses
      BY <1>6, BoundsAssumption DEF PowerLoss
    <2>. QED BY <1>6, <2>1 DEF PowerLoss, Replies
  <1>7. CASE (\E d \in Docs : WriteBackFile(d)) \/ WriteBackName \/ UNCHANGED vars
    BY <1>7 DEF WriteBackFile, WriteBackName, vars, files, reads
  <1>. QED BY <1>1, <1>2, <1>3, <1>4, <1>5, <1>6, <1>7 DEF Next

(* Every temporary sibling is in use, or known to be left behind.          *)
LEMMA StraysPreserved ==
  ASSUME IInv, RestTyped, NoStrayTemporaries, [Next]_vars
  PROVE  NoStrayTemporaries'
  <1>. USE NoneAssumption DEF IInv, Typed, RestTyped, NoStrayTemporaries
  <1>1. ASSUME NEW g \in Gateways, NEW d \in Docs, MakeTemp(g, d)
        PROVE  NoStrayTemporaries'
    <2>1. doc[g] = None /\ doc' = [doc EXCEPT ![g] = d] /\ temps' = temps \cup {d}
          /\ littered' = littered
      BY <1>1 DEF MakeTemp, Goes, WritingPCs
    <2>. QED BY <2>1
  <1>2. ASSUME NEW g \in Gateways, WriteStep(g), ~ Unlink(g), ~ UnlinkFails(g)
        PROVE  NoStrayTemporaries'
    <2>1. temps' \subseteq temps /\ doc' = doc /\ littered' = littered
      BY <1>2 DEF WriteStep, WriteText, Flush, Fsync, Close, Replace, StepFails, Put,
                  Rename, files, reads
    <2>. QED BY <2>1
  <1>3. ASSUME NEW g \in Gateways, Unlink(g) \/ UnlinkFails(g) \/ Crash(g)
        PROVE  NoStrayTemporaries'
    <2>1. /\ doc' = [doc EXCEPT ![g] = None] /\ temps' \subseteq temps
          /\ littered \subseteq littered'
          /\ doc[g] \in temps' => doc[g] \in littered'
      BY <1>3 DEF Unlink, UnlinkFails, Finish, Crash, files
    <2>2. \A h \in Gateways \ {g} : doc'[h] = doc[h]
      BY <2>1
    <2>. QED BY <2>1, <2>2
  <1>4. CASE PowerLoss
    BY <1>4 DEF PowerLoss
  <1>5. ASSUME UNCHANGED <<temps, doc, littered>>
        PROVE  NoStrayTemporaries'
    BY <1>5
  <1>6. ASSUME NEW g \in Gateways,
               \/ (\E d \in Docs : MakeTempFails(g, d))
               \/ OpenPreview(g) \/ PreviewMissing(g) \/ ReadStep(g)
        PROVE  NoStrayTemporaries'
    BY <1>5, <1>6 DEF MakeTempFails, OpenPreview, PreviewMissing, ReadStep, ReadPreview,
       ReadFails, Answer, files, reads
  <1>7. CASE (\E d \in Docs : WriteBackFile(d)) \/ WriteBackName \/ UNCHANGED vars
    BY <1>5, <1>7 DEF WriteBackFile, WriteBackName, vars, files, reads
  <1>. QED BY <1>1, <1>2, <1>3, <1>4, <1>6, <1>7 DEF Next, WriteStep

(* Everything the proofs know of the reachable states.                     *)
THEOREM FullInvariance == Spec => [](Readers /\ RestTyped /\ NoStrayTemporaries)
  <1>1. Init => Readers /\ RestTyped /\ NoStrayTemporaries
    BY BoundsAssumption DEF Init, Readers, RestTyped, NoStrayTemporaries, Replies
  <1>2. IInv /\ Readers /\ RestTyped /\ NoStrayTemporaries /\ [Next]_vars =>
          Readers' /\ RestTyped' /\ NoStrayTemporaries'
    BY ReadersPreserved, RestPreserved, StraysPreserved
  <1>. QED BY <1>1, <1>2, Invariance, PTL DEF Spec

(* Every variable keeps its type, and a gateway has a document in hand     *)
(* exactly while it writes or reads one.                                   *)
THEOREM TypeCorrect == Spec => []TypeOK
  <1>1. IInv /\ Readers /\ RestTyped => TypeOK
    BY DEF IInv, Typed, Readers, RestTyped, TypeOK
  <1>. QED BY <1>1, Invariance, FullInvariance, PTL

(* No temporary sibling is left but by a dead process or a failing unlink. *)
THEOREM NoStrays == Spec => []NoStrayTemporaries
  BY FullInvariance, PTL

(* Every step of the protocol is a step of the register, or none.          *)
LEMMA StepSimulation ==
  ASSUME IInv, Readers, [Next]_vars
  PROVE  [Register!Next]_(Register!vars)
  <1>. USE NoneAssumption DEF IInv, Typed, Register!vars
  <1>1. ASSUME NEW g \in Gateways, NEW d \in Docs, MakeTemp(g, d) \/ MakeTempFails(g, d)
        PROVE  UNCHANGED Register!vars
    BY <1>1 DEF MakeTemp, MakeTempFails, files, reads
  <1>2. ASSUME NEW g \in Gateways, WriteStep(g)
        PROVE  UNCHANGED Register!vars \/ \E d \in Docs : Register!Install(d)
    <2>1. CASE Replace(g)
      <3>1. doc[g] \in Docs /\ doc[g] \notin installed
        BY <2>1 DEF Replace, Goes, WritingPCs, PCs, InstalledIsSafe
      <3>2. Register!Install(doc[g])
        BY <2>1, <3>1 DEF Replace, Rename, reads, Register!Install
      <3>. QED BY <3>1, <3>2
    <2>2. CASE ~ Replace(g)
      BY <1>2, <2>2 DEF WriteStep, WriteText, Flush, Fsync, Close, StepFails, Unlink,
                        UnlinkFails, Put, Finish, files, reads
    <2>. QED BY <2>1, <2>2
  <1>3. ASSUME NEW g \in Gateways, OpenPreview(g)
        PROVE  Register!Look(g)
    BY <1>3 DEF OpenPreview, Goes, Readers, files, Register!Look
  <1>4. ASSUME NEW g \in Gateways, PreviewMissing(g)
        PROVE  Register!Missing(g)
    BY <1>4 DEF PreviewMissing, Readers, files, Register!Missing
  <1>5. ASSUME NEW g \in Gateways, ReadStep(g)
        PROVE  Register!Answer(g)
    <2>1. pc[g] = "reading"
      BY <1>5 DEF ReadStep, ReadPreview, ReadFails, Answer, Goes
    <2>2. handle[g] # None /\ cached[handle[g]] = "whole"
      BY <2>1 DEF Readers, InstalledIsSafe
    <2>. QED BY <1>5, <2>2 DEF ReadStep, ReadPreview, ReadFails, Answer, files,
                Register!Answer
  <1>6. ASSUME NEW g \in Gateways, Crash(g)
        PROVE  Register!Forget(g)
    BY <1>6 DEF Crash, files, Register!Forget
  <1>7. ASSUME NEW d \in Docs, WriteBackFile(d)
        PROVE  UNCHANGED Register!vars
    BY <1>7 DEF WriteBackFile, files, reads
  <1>8. ASSUME WriteBackName
        PROVE  UNCHANGED Register!vars
    BY <1>8 DEF WriteBackName, files, reads
  <1>9. ASSUME PowerLoss
        PROVE  Register!Lose
    BY <1>9 DEF PowerLoss, InstalledIsSafe, Register!Lose
  <1>10. CASE UNCHANGED vars
    BY <1>10 DEF vars, files, reads
  <1>. QED BY <1>1, <1>2, <1>3, <1>4, <1>5, <1>6, <1>7, <1>8, <1>9, <1>10
           DEF Next, Register!Next

(* The protocol implements the register: readers are only ever given       *)
(* complete documents, in an order the replacements and losses explain.    *)
THEOREM Refinement == Spec => ImplementsRegister
  <1>1. Init => Readers /\ Register!Init
    BY DEF Init, Readers, Register!Init
  <1>2. IInv /\ Readers /\ [Next]_vars => Readers' /\ [Register!Next]_(Register!vars)
    BY ReadersPreserved, StepSimulation
  <1>. QED BY <1>1, <1>2, Invariance, PTL DEF Spec, ImplementsRegister, Register!Spec
===============================================================================
