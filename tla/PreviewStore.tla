----------------------------- MODULE PreviewStore -----------------------------
(***************************************************************************)
(* The development preview on disk: DevelopmentPreviewWriter.write and     *)
(* GatewayService.read_preview, one file system call at a time, in several *)
(* gateway processes that share one preview_output_path.  (Within one      *)
(* process a write or a read runs on the event loop without an await.)     *)
(*                                                                         *)
(* The file system is external: any call may raise OSError, a process may  *)
(* die between two calls, and the machine may lose power, which leaves     *)
(* what had reached the disk.                                              *)
(***************************************************************************)
EXTENDS Naturals

CONSTANTS
  Docs,            \* the preview documents, each the subject of one write
  Gateways,        \* the processes that share preview_output_path
  MaxCrashes,      \* bound: how often a process dies
  MaxPowerLosses,  \* bound: how often the machine loses power
  None             \* no document

ASSUME NoneAssumption == None \notin Docs
ASSUME BoundsAssumption == MaxCrashes \in Nat /\ MaxPowerLosses \in Nat

Contents == {"absent", "empty", "part", "whole"}
Replies == {None, "missing", "invalid", "unreadable"} \cup Docs

(* How a write ended: it returned, a step up to the replacement raised and *)
(* the clean-up did not, the clean-up raised (write raises then, whatever  *)
(* came before it), or its process died.                                   *)
Outcomes == {"none", "pending", "written", "failed", "uncleaned", "lost"}

VARIABLES
  dest,        \* the document named by preview_output_path, or None
  temps,       \* the documents that have a temporary sibling's name
  cached,      \* what a document's file holds, as processes see it
  ondisk,      \* external: what of it would survive a loss of power
  destOnDisk,  \* external: the name that would survive a loss of power
  pc,          \* where the write or the read of a gateway is
  doc,         \* the document a gateway is writing, or None
  handle,      \* the document whose file a gateway reads, or None
  reply,       \* what the last read_preview of a gateway answered
  outcome,     \* how the write of a document ended
  installed,   \* history: the documents that were ever named by dest
  littered,    \* history: temporary files whose clean-up did not happen
  crashes, losses

files == <<dest, temps, cached>>
disk == <<ondisk, destOnDisk>>
reads == <<handle, reply>>
vars == <<files, disk, pc, doc, reads, outcome, installed, littered, crashes, losses>>

PCs == {"idle", "opened", "written", "flushed", "synced", "closed", "replaced",
        "cleaning", "reading"}
WritingPCs == PCs \ {"idle", "reading"}

(* A gateway has a document in hand exactly while it writes or reads one.  *)
TypeOK ==
  /\ dest \in Docs \cup {None} /\ destOnDisk \in Docs \cup {None}
  /\ temps \subseteq Docs
  /\ cached \in [Docs -> Contents] /\ ondisk \in [Docs -> Contents]
  /\ pc \in [Gateways -> PCs]
  /\ doc \in [Gateways -> Docs \cup {None}]
  /\ handle \in [Gateways -> Docs \cup {None}]
  /\ reply \in [Gateways -> Replies]
  /\ outcome \in [Docs -> Outcomes]
  /\ installed \subseteq Docs /\ littered \subseteq Docs
  /\ crashes \in 0 .. MaxCrashes /\ losses \in 0 .. MaxPowerLosses
  /\ \A g \in Gateways : /\ (pc[g] \in WritingPCs) = (doc[g] # None)
                         /\ (pc[g] = "reading") = (handle[g] # None)

Init ==
  /\ dest = None /\ destOnDisk = None
  /\ temps = {} /\ installed = {} /\ littered = {}
  /\ cached = [d \in Docs |-> "absent"] /\ ondisk = [d \in Docs |-> "absent"]
  /\ pc = [g \in Gateways |-> "idle"]
  /\ doc = [g \in Gateways |-> None] /\ handle = [g \in Gateways |-> None]
  /\ reply = [g \in Gateways |-> None]
  /\ outcome = [d \in Docs |-> "none"]
  /\ crashes = 0 /\ losses = 0

-------------------------------------------------------------------------------
(* Gateway g is at p and goes on to q.                                     *)
Goes(g, p, q) == pc[g] = p /\ pc' = [pc EXCEPT ![g] = q]

(* Mutant: the document is written in place.                               *)
OpenDestination(g, d) ==
  /\ Goes(g, "idle", "opened")
  /\ outcome[d] = "none"
  /\ outcome' = [outcome EXCEPT ![d] = "pending"]
  /\ dest' = d /\ installed' = installed \cup {d}
  /\ cached' = [cached EXCEPT ![d] = "empty"]
  /\ doc' = [doc EXCEPT ![g] = d]
  /\ UNCHANGED <<temps, disk, reads, littered, crashes, losses>>

(* mkdir and mkstemp: a temporary sibling with a name of its own.          *)
MakeTemp(g, d) ==
  /\ Goes(g, "idle", "opened")
  /\ outcome[d] = "none"
  /\ outcome' = [outcome EXCEPT ![d] = "pending"]
  /\ temps' = temps \cup {d}
  /\ cached' = [cached EXCEPT ![d] = "empty"]
  /\ doc' = [doc EXCEPT ![g] = d]
  /\ UNCHANGED <<dest, disk, reads, installed, littered, crashes, losses>>

(* mkdir or mkstemp raises before the try.                                 *)
MakeTempFails(g, d) ==
  /\ pc[g] = "idle"
  /\ outcome[d] = "none"
  /\ outcome' = [outcome EXCEPT ![d] = "failed"]
  /\ UNCHANGED <<files, disk, pc, doc, reads, installed, littered, crashes, losses>>

(* stream.write hands a part of the text to the file, flush the rest.      *)
Put(g, contents) ==
  /\ cached' = [cached EXCEPT ![doc[g]] = contents]
  /\ UNCHANGED <<dest, temps, disk, doc, reads, outcome, installed, littered,
                 crashes, losses>>
WriteText(g) == Goes(g, "opened", "written") /\ Put(g, "part")
Flush(g) == Goes(g, "written", "flushed") /\ Put(g, "whole")

(* Mutant: the text is not synchronized before the replacement.            *)
FsyncNothing(g) ==
  /\ Goes(g, "flushed", "synced")
  /\ UNCHANGED <<files, disk, doc, reads, outcome, installed, littered, crashes, losses>>

Fsync(g) ==
  /\ Goes(g, "flushed", "synced")
  /\ ondisk' = [ondisk EXCEPT ![doc[g]] = cached[doc[g]]]
  /\ UNCHANGED <<files, destOnDisk, doc, reads, outcome, installed, littered,
                 crashes, losses>>

(* `with stream` closes the descriptor.                                    *)
Close(g) ==
  /\ Goes(g, "synced", "closed")
  /\ UNCHANGED <<files, disk, doc, reads, outcome, installed, littered, crashes, losses>>

(* os.replace: the destination's name moves to the document in one step.   *)
Rename(g) ==
  /\ dest' = doc[g]
  /\ temps' = temps \ {doc[g]}
  /\ installed' = installed \cup {doc[g]}
  /\ UNCHANGED <<cached, disk, doc, reads, outcome, littered, crashes, losses>>

(* Mutant: the replacement comes before the text is flushed.               *)
ReplaceEarly(g) ==
  /\ pc[g] \in {"written", "closed"} /\ doc[g] \notin installed
  /\ pc' = [pc EXCEPT ![g] = IF @ = "closed" THEN "replaced" ELSE @]
  /\ Rename(g)
Replace(g) == Goes(g, "closed", "replaced") /\ Rename(g)

(* fdopen, write, flush, fsync, close or replace raises: to the finally.   *)
StepFails(g) ==
  /\ pc[g] \in {"opened", "written", "flushed", "synced", "closed"}
  /\ pc' = [pc EXCEPT ![g] = "cleaning"]
  /\ UNCHANGED <<files, disk, doc, reads, outcome, installed, littered, crashes, losses>>

(* The write of gateway g ends so; `left` are the temporary siblings then. *)
Finish(g, end, left) ==
  /\ pc[g] \in {"replaced", "cleaning"}
  /\ outcome' = [outcome EXCEPT ![doc[g]] = end]
  /\ pc' = [pc EXCEPT ![g] = "idle"]
  /\ doc' = [doc EXCEPT ![g] = None]
  /\ temps' = left
  /\ UNCHANGED <<dest, cached, disk, reads, installed, crashes, losses>>

(* What becomes of a write whose clean-up does not raise.                  *)
End(g) == IF pc[g] = "replaced" THEN "written" ELSE "failed"

(* Mutant: only a successful write removes its temporary sibling.          *)
UnlinkAfterReplace(g) ==
  Finish(g, End(g), IF pc[g] = "replaced" THEN temps \ {doc[g]} ELSE temps)
    /\ UNCHANGED littered

(* finally: unlink(missing_ok), which finds nothing after a replacement    *)
Unlink(g) == Finish(g, End(g), temps \ {doc[g]}) /\ UNCHANGED littered

(* and which may itself raise, after a replacement too: missing_ok keeps   *)
(* back FileNotFoundError alone.  os.close, which comes before it when     *)
(* fdopen raised, skips it with the same effect if it raises.              *)
UnlinkFails(g) ==
  /\ Finish(g, "uncleaned", temps)
  /\ littered' = littered \cup (temps \cap {doc[g]})

-------------------------------------------------------------------------------
(* read_preview: open the file that has the destination's name now,        *)
OpenPreview(g) ==
  /\ Goes(g, "idle", "reading")
  /\ dest # None
  /\ handle' = [handle EXCEPT ![g] = dest]
  /\ UNCHANGED <<files, disk, doc, reply, outcome, installed, littered, crashes, losses>>

(* answer 404 when there is none,                                          *)
PreviewMissing(g) ==
  /\ pc[g] = "idle" /\ dest = None
  /\ reply' = [reply EXCEPT ![g] = "missing"]
  /\ UNCHANGED <<files, disk, pc, doc, handle, outcome, installed, littered, crashes,
                 losses>>

(* Mutant: the file that was read stays open.                              *)
AnswerKeepingHandle(g, r) ==
  /\ Goes(g, "reading", "idle")
  /\ reply' = [reply EXCEPT ![g] = r]
  /\ UNCHANGED <<files, disk, doc, handle, outcome, installed, littered, crashes, losses>>

(* Close the file that was read and answer r.                              *)
Answer(g, r) ==
  /\ Goes(g, "reading", "idle")
  /\ reply' = [reply EXCEPT ![g] = r]
  /\ handle' = [handle EXCEPT ![g] = None]
  /\ UNCHANGED <<files, disk, doc, outcome, installed, littered, crashes, losses>>

(* read the file that was opened, and accept only a valid document.        *)
ReadPreview(g) ==
  Answer(g, IF cached[handle[g]] = "whole" THEN handle[g] ELSE "invalid")
ReadFails(g) == Answer(g, "unreadable")

-------------------------------------------------------------------------------
(* The process of g dies and is restarted: nothing cleans up after it.     *)
Crash(g) ==
  /\ pc[g] # "idle" /\ crashes < MaxCrashes
  /\ crashes' = crashes + 1
  /\ outcome' = [d \in Docs |-> IF d = doc[g] THEN "lost" ELSE outcome[d]]
  /\ littered' = littered \cup (temps \cap {doc[g]})
  /\ pc' = [pc EXCEPT ![g] = "idle"]
  /\ doc' = [doc EXCEPT ![g] = None]
  /\ handle' = [handle EXCEPT ![g] = None]
  /\ reply' = [reply EXCEPT ![g] = None]
  /\ UNCHANGED <<files, disk, installed, losses>>

(* External: the system writes back a file's contents, or the directory.   *)
WriteBackFile(d) ==
  /\ ondisk' = [ondisk EXCEPT ![d] = cached[d]]
  /\ UNCHANGED <<files, destOnDisk, pc, doc, reads, outcome, installed, littered,
                 crashes, losses>>
WriteBackName ==
  /\ destOnDisk' = dest
  /\ UNCHANGED <<files, ondisk, pc, doc, reads, outcome, installed, littered,
                 crashes, losses>>

(* External: power is lost.  The directory is not synchronized by the      *)
(* writer, so an older destination and any temporary name may be back.     *)
PowerLoss ==
  /\ losses < MaxPowerLosses
  /\ losses' = losses + 1
  /\ cached' = ondisk
  /\ dest' = destOnDisk
  /\ temps' \in SUBSET ({d \in Docs : cached[d] # "absent"} \ {destOnDisk})
  /\ littered' = temps'
  /\ outcome' = [d \in Docs |-> IF outcome[d] = "pending" THEN "lost" ELSE outcome[d]]
  /\ pc' = [g \in Gateways |-> "idle"]
  /\ doc' = [g \in Gateways |-> None]
  /\ handle' = [g \in Gateways |-> None]
  /\ reply' = [g \in Gateways |-> None]
  /\ UNCHANGED <<disk, installed, crashes>>

WriteStep(g) ==
  \/ WriteText(g) \/ Flush(g) \/ Fsync(g) \/ Close(g) \/ Replace(g)
  \/ StepFails(g) \/ Unlink(g) \/ UnlinkFails(g)

ReadStep(g) == ReadPreview(g) \/ ReadFails(g)

Next ==
  \/ \E g \in Gateways, d \in Docs : MakeTemp(g, d) \/ MakeTempFails(g, d)
  \/ \E g \in Gateways : \/ WriteStep(g) \/ OpenPreview(g) \/ PreviewMissing(g)
                         \/ ReadStep(g) \/ Crash(g)
  \/ \E d \in Docs : WriteBackFile(d)
  \/ WriteBackName
  \/ PowerLoss

Spec == Init /\ [][Next]_vars

-------------------------------------------------------------------------------
(* The destination names a complete document at every moment, also after a *)
(* loss of power at the worst moment: the text is synchronized before the  *)
(* name moves (write's fsync, then os.replace).                            *)
DestinationIsWhole == dest # None => cached[dest] = "whole"

(* A write that returns has shown its document, and one that failed at a   *)
(* step has never shown it, also if its process lives on and other writes  *)
(* come and go.  The only write that may raise with its document shown is  *)
(* one whose clean-up raised after os.replace (write's try and finally).   *)
OutcomeTellsTheTruth ==
  \A d \in Docs : /\ outcome[d] = "failed" => d \notin installed
                  /\ outcome[d] = "written" => d \in installed

(* Whatever fails, the only temporary siblings are those of writes under   *)
(* way and those a dead process or a failing unlink left behind.           *)
NoStrayTemporaries ==
  temps \subseteq littered \cup {doc[g] : g \in Gateways}

(* The whole protocol behaves as a register of complete documents, however *)
(* the writes and reads of the processes interleave.                       *)
Register == INSTANCE PreviewRegister WITH document <- dest, seen <- handle
ImplementsRegister == Register!Spec

===============================================================================
