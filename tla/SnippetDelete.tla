--------------------------- MODULE SnippetDelete ----------------------------
(***************************************************************************)
(* vm.cloud-init-snippet.delete: the target's reference to a snippet is    *)
(* removed, then the snippet, across crashes of the agent.                 *)
(*                                                                         *)
(* The command's journal record holds the phase; the redelivered command   *)
(* resumes from it.  A scan of all guests, its reads included, is one      *)
(* step.  A failure ends the command.                                      *)
(***************************************************************************)
EXTENDS GuestCommands

VARIABLE phase   \* the phase in the journal record

Phases == <<"", "validated", "reference_proven", "detached", "delete_submitted",
            "deleted", "verified">>
snippetPhaseOrder(p) == CHOOSE i \in DOMAIN Phases : Phases[i] = p

Fails == "ret_snippet_failed"
Unknown == "ret_snippet_indeterminate"

\* AdvanceCloudInitSnippetDelete: the phase never goes back; the write may fail.
AdvanceCloudInitSnippetDelete(p, next) ==
  \/ /\ snippetPhaseOrder(p) >= snippetPhaseOrder(phase)
     /\ phase' = p
     /\ Goto(next)
  \/ UnreadGoto(Unknown) /\ UNCHANGED phase

\* Every guest's cicustom is read; only the target may name the snippet.
ScanPasses(requireTarget) ==
  /\ "other" \notin refs
  /\ requireTarget <=> "target" \in refs
scanSnippetReferences(p, requireTarget, next) ==
  /\ pc = p
  /\ \/ ScanPasses(requireTarget) /\ Goto(next)
     \/ ~ScanPasses(requireTarget) /\ Goto(Fails)
     \/ UnreadGoto(Fails)
  /\ UNCHANGED phase

-----------------------------------------------------------------------------
BeginCloudInitSnippetDelete ==
  /\ pc = "snippet"
  /\ \/ phase' = (IF phase = "" THEN "validated" ELSE phase) /\ Goto("sn_read")
     \/ UnreadGoto(Unknown) /\ UNCHANGED phase

\* The branch the phase and the target's present reference decide.
AfterRead(attached) ==
  LET before == snippetPhaseOrder(phase) < snippetPhaseOrder("detached") IN
  CASE before /\ attached -> "sn_scan_attached"
    [] before /\ ~attached /\ phase = "reference_proven" -> "sn_scan_detached"
    [] before /\ ~attached /\ phase # "reference_proven" -> Fails
    [] ~before /\ attached -> Fails
    [] ~before /\ ~attached /\ snippetPhaseOrder(phase) >= snippetPhaseOrder("deleted") -> "sn_finish"
    [] OTHER -> "sn_scan"

\* From here on a new reference is news, unless a DELETE is already under way.
Forget == fresh' = IF "delete_volume" \in stray THEN fresh ELSE {}

readSnippetTarget ==
  /\ pc = "sn_read"
  /\ \/ /\ stale' = FALSE
        /\ Forget
        /\ pc' = AfterRead("target" \in refs)
        /\ UNCHANGED <<call, faults, guest, vol, refs, touched, lapseVars, cmd, receipt, acts>>
     \/ UnreadGoto(Fails)
  /\ UNCHANGED phase

\* A detach PVE accepted before a crash is noticed, not repeated.
NoticeDetached ==
  \/ scanSnippetReferences("sn_scan_detached", FALSE, "sn_detached")
  \/ pc = "sn_detached" /\ AdvanceCloudInitSnippetDelete("detached", "sn_scan")

ProveReference ==
  \/ scanSnippetReferences("sn_scan_attached", TRUE, "sn_prove")
  \/ pc = "sn_prove" /\ AdvanceCloudInitSnippetDelete("reference_proven", "sn_detach")

\* An HTTP error is reported as a failure, a lost answer as indeterminate.
SnippetError(next) ==
  \/ Succeeded /\ Goto(next)
  \/ Failed /\ call.st # "lost" /\ Goto(Fails)
  \/ call.st = "lost" /\ Goto(Unknown)

Detach ==
  /\ pc = "sn_detach"
  /\ \/ Request("detach")
     \/ Failed /\ SnippetError("sn_detached")
     \/ /\ Succeeded
        /\ pc' = "sn_detached" /\ call' = Idle
        /\ Forget
        /\ UNCHANGED <<faults, pveVars, lapseVars, cmd, receipt, acts>>
  /\ UNCHANGED phase

\* Slip: only the scan is made that was made before the detach.
ScanOnce == pc = "sn_scan" /\ Goto("sn_list") /\ UNCHANGED phase
\* After the detach every guest is scanned again, then the storage is listed.
ScanBeforeDelete == scanSnippetReferences("sn_scan", FALSE, "sn_list")
snippetVolumePresent ==
  /\ pc = "sn_list"
  /\ \/ vol /\ Goto("sn_delete")
     \/ ~vol /\ Goto("sn_gone")
     \/ UnreadGoto(Fails)
  /\ UNCHANGED phase

DeleteSnippetVolume ==
  \/ /\ pc = "sn_delete"
     /\ Request("delete_volume") \/ SnippetError("sn_gone")
     /\ UNCHANGED phase
  \/ /\ pc = "sn_gone"
     /\ AdvanceCloudInitSnippetDelete("deleted", "sn_finish")

\* A UPID is bound to the record before the submitted receipt is returned.
RecordCloudInitSnippetDeleteSubmitted ==
  /\ pc = "sn_delete" /\ call.st = "running"
  /\ stray' = stray \cup {"delete_volume"}
  /\ call' = Idle
  /\ \/ phase' = "delete_submitted" /\ pc' = "ret_submitted" /\ UNCHANGED faults
     \/ Fault /\ pc' = Unknown /\ UNCHANGED phase
  /\ UNCHANGED <<pveVars, late, agentVars>>

\* verifySnippetAbsentByDigest: neither attached to the target nor in storage.
AbsentByDigest == "target" \notin refs /\ ~vol
finishSnippetDeleteRecovery ==
  \/ /\ pc = "sn_finish"
     /\ \/ AbsentByDigest /\ Goto("sn_verified")
        \/ ~AbsentByDigest /\ Goto(Fails)
        \/ UnreadGoto(Fails)
     /\ UNCHANGED phase
  \/ /\ pc = "sn_verified"
     /\ AdvanceCloudInitSnippetDelete("verified", "ret_succeeded")

\* The service resolves the UPID of a submitted deletion.
reconciledSnippetDeleteReceipt ==
  /\ cmd = "snippet_delete" /\ receipt.state \in {"submitted", "waiting"}
  /\ "delete_volume" \notin stray
  /\ \/ ~vol /\ AbsentByDigest /\ phase' = "verified"
        /\ receipt' = [state |-> "succeeded", code |-> "SUCCEEDED"]
     \/ ~vol /\ ~AbsentByDigest /\ phase' = "deleted"
        /\ receipt' = [state |-> "waiting", code |-> "CLOUD_INIT_SNIPPET_VERIFY_FAILED"]
     \/ vol /\ UNCHANGED phase
        /\ receipt' = [state |-> "failed", code |-> "CLOUD_INIT_SNIPPET_DELETE_FAILED"]
  /\ UNCHANGED <<pc, call, faults, pveVars, lapseVars, cmd, fresh, acts>>

SnippetStep ==
  \/ BeginCloudInitSnippetDelete
  \/ readSnippetTarget
  \/ NoticeDetached
  \/ ProveReference
  \/ Detach
  \/ ScanBeforeDelete
  \/ snippetVolumePresent
  \/ DeleteSnippetVolume
  \/ RecordCloudInitSnippetDeleteSubmitted
  \/ finishSnippetDeleteRecovery

-----------------------------------------------------------------------------
\* The snippet is never taken from a guest that uses it, however often the
\* command is interrupted and resumed: when it disappears from storage, the
\* only references left were made after this execution read the target and
\* detached it, too late for the scan that follows (cloud_init_snippet.go,
\* scanSnippetReferences before DeleteSnippetVolume).
NoDanglingReference ==
  [][cmd = "snippet_delete" /\ vol /\ ~vol' => refs' \subseteq fresh']_<<vol, refs, fresh>>
=============================================================================
