----------------------------- MODULE Collectors -----------------------------
(***************************************************************************)
(* The evidence collectors: NvmlEvidenceCollector, CorelibEvidenceCollector *)
(* (gpu/evidence.cpp) and NscqEvidenceCollector (switch/evidence.cpp).     *)
(* get_evidence initialises its library, as in DriverLibrary, and then     *)
(* collects from every device: collect_evidence_nvml, _corelib, _nscq.     *)
(*                                                                         *)
(* NVML and Corelib get the nonce with the call that makes the report; for *)
(* NSCQ it is an input of the one session of the process, set before the   *)
(* report is observed, in two calls that nothing joins.  An SPDM client of *)
(* Corelib keeps a transcript of what it exchanged with the device, which  *)
(* is what the collector takes for the report, and has to be reset for it. *)
(*                                                                         *)
(* A thread of DriverLibrary that is at "collect" takes the steps of the   *)
(* collection.  The libraries are external.  When one is shut down under a *)
(* collection, the next call crashes; it fails instead while the function  *)
(* table is still there, or where the code looks at it first.              *)
(***************************************************************************)
EXTENDS DriverLibrary, Sequences, Functions

CONSTANTS
    Devices,            \* that the library reports, in its order
    Nonces,             \* of the size that reports have
    Empty, Short,       \* no nonce, and one of another size
    Zeros,              \* what NVML puts into a report when it gets no nonce
    Mixed               \* a transcript that does not start with the request

ASSUME CollectorsConstants ==
    /\ Devices \in Seq(Range(Devices)) /\ IsInjective(Devices)
    /\ Cardinality(Nonces \cup {Empty, Short, Zeros, Mixed}) = Cardinality(Nonces) + 4

VARIABLES
    sessionInput,       \* the nonce last given to nscq_session_set_input (external)
    transcript,         \* what an SPDM client exchanged since its reset (external)
    step,               \* where a thread is in collect_evidence_X
    nonce_input,
    listed,             \* the devices found
    report,             \* attestation_report: the nonce it was made with
    out_evidence,
    overlapped          \* two collections have overlapped (history)

collection == <<sessionInput, transcript, step, nonce_input, listed, report,
                out_evidence, overlapped>>

Ends == {"Ok", "Error"}

CollectorsInit ==
    /\ Init
    /\ sessionInput = Empty
    /\ transcript = [t \in Threads |-> {}]
    /\ step = [t \in Threads |-> "none"]
    /\ nonce_input = [t \in Threads |-> Empty]
    /\ listed = [t \in Threads |-> <<>>]
    /\ report = [t \in Threads |-> Empty]
    /\ out_evidence = [t \in Threads |-> <<>>]
    /\ overlapped = FALSE

Collecting(t) == step[t] \notin Ends \cup {"none"}
ThenStep(t, label) == step' = [step EXCEPT ![t] = label]

\* A call into the library succeeds only while it runs.
LibraryCall(t, lib, label) == library = lib /\ step[t] = label /\ Running

SetListed(t, found) == listed' = [listed EXCEPT ![t] = found]
SetReport(t, nonce) == report' = [report EXCEPT ![t] = nonce]

-----------------------------------------------------------------------------
FirstStep == [nvml |-> "mode", nscq |-> "list", corelib |-> "manager"][library]

\* init_X returned Ok: collect_evidence_X with the caller's nonce.  Corelib
\* refuses one of the wrong size at once (and an empty one before init_corelib,
\* which is the same to the caller); the others look at the flag again.
Refused(nonce) == IF library = "corelib" THEN nonce \notin Nonces ELSE ~g_initialized

collect_evidence(t, nonce) ==
    /\ At(t, "collect") /\ step[t] = "none"
    /\ ThenStep(t, IF Refused(nonce) THEN "Error" ELSE FirstStep)
    /\ nonce_input' = [nonce_input EXCEPT ![t] = nonce]
    /\ overlapped' = (overlapped \/ \E u \in Threads : Collecting(u))
    /\ UNCHANGED <<vars, sessionInput, transcript, listed, report, out_evidence>>

\* NVML: one of the two confidential computing modes must be on.
CheckMode(t) ==
    /\ LibraryCall(t, "nvml", "mode")
    /\ \E is_cc_enabled, is_ppcie_mode_enabled \in BOOLEAN :
          ThenStep(t, IF is_cc_enabled \/ is_ppcie_mode_enabled THEN "list" ELSE "Error")
    /\ UNCHANGED <<vars, sessionInput, transcript, nonce_input, listed, report, out_evidence, overlapped>>

\* NVML counts the devices; none is an error.
get_device_count(t) ==
    /\ LibraryCall(t, "nvml", "list")
    /\ \E count \in 0..Len(Devices) :
          /\ SetListed(t, SubSeq(Devices, 1, count))
          /\ ThenStep(t, IF count = 0 THEN "Error" ELSE "report")
    /\ UNCHANGED <<vars, sessionInput, transcript, nonce_input, report, out_evidence, overlapped>>

\* NSCQ: a switch for which uuid_callback gets an error is left out of the
\* list; an empty list is an error.
get_all_switch_uuid(t) ==
    /\ LibraryCall(t, "nscq", "list")
    /\ \E S \in SUBSET Range(Devices) :
          /\ SetListed(t, SelectSeq(Devices, LAMBDA u : u \in S))
          /\ ThenStep(t, IF S = {} THEN "Error" ELSE "arch")
    /\ UNCHANGED <<vars, sessionInput, transcript, nonce_input, report, out_evidence, overlapped>>

get_switch_architecture(t) ==
    /\ LibraryCall(t, "nscq", "arch") /\ ThenStep(t, "input")
    /\ UNCHANGED <<vars, sessionInput, transcript, nonce_input, listed, report, out_evidence, overlapped>>

\* Corelib: the device manager, and how many devices there are (listed holds
\* them until the next call).
CreateManager(t) ==
    /\ LibraryCall(t, "corelib", "manager")
    /\ \E count \in 0..Len(Devices) :
          /\ SetListed(t, SubSeq(Devices, 1, count))
          /\ ThenStep(t, IF count = 0 THEN "Error" ELSE "list")
    /\ UNCHANGED <<vars, sessionInput, transcript, nonce_input, report, out_evidence, overlapped>>

\* The devices; there may be fewer by now, and none is no error any more.
discover_inband_gpus(t) ==
    /\ LibraryCall(t, "corelib", "list")
    /\ \E count \in 0..Len(listed[t]) :
          /\ SetListed(t, SubSeq(listed[t], 1, count))
          /\ ThenStep(t, IF count = 0 THEN "Ok" ELSE "digests")
    /\ UNCHANGED <<vars, sessionInput, transcript, nonce_input, report, out_evidence, overlapped>>

-----------------------------------------------------------------------------
\* NVML: handle, architecture, board and UUID of the device, and the report.
\* No nonce is passed on when the caller has none.
get_attestation_report_nvml(t) ==
    /\ LibraryCall(t, "nvml", "report")
    /\ IF nonce_input[t] = Short
       THEN ThenStep(t, "Error") /\ UNCHANGED report
       ELSE /\ SetReport(t, IF nonce_input[t] = Empty THEN Zeros ELSE nonce_input[t])
            /\ ThenStep(t, "evidence")
    /\ UNCHANGED <<vars, sessionInput, transcript, nonce_input, listed, out_evidence, overlapped>>

\* Variation: the nonce is not passed on.
InputNotSet(t) ==
    /\ LibraryCall(t, "nscq", "input")
    /\ ThenStep(t, IF nonce_input[t] \in Nonces THEN "report" ELSE "Error")
    /\ UNCHANGED <<vars, sessionInput, transcript, nonce_input, listed, report, out_evidence, overlapped>>

\* NSCQ's get_attestation_report: nscq_session_set_input, then the observation.
SetInput(t) ==
    /\ LibraryCall(t, "nscq", "input")
    /\ IF nonce_input[t] \in Nonces
       THEN sessionInput' = nonce_input[t] /\ ThenStep(t, "report")
       ELSE ThenStep(t, "Error") /\ UNCHANGED sessionInput
    /\ UNCHANGED <<vars, transcript, nonce_input, listed, report, out_evidence, overlapped>>

Observe(t) ==
    /\ LibraryCall(t, "nscq", "report") /\ ThenStep(t, "evidence")
    /\ SetReport(t, sessionInput)
    /\ UNCHANGED <<vars, sessionInput, transcript, nonce_input, listed, out_evidence, overlapped>>

\* Corelib: an SPDM client for the device, and the digests of its certificates.
get_digests(t) ==
    /\ LibraryCall(t, "corelib", "digests") /\ ThenStep(t, "certs")
    /\ transcript' = [transcript EXCEPT ![t] = {"digests"}]
    /\ UNCHANGED <<vars, sessionInput, nonce_input, listed, report, out_evidence, overlapped>>

\* A reset, and the certificate chain of the first slot.
get_certificate(t) ==
    /\ LibraryCall(t, "corelib", "certs") /\ ThenStep(t, "reset")
    /\ transcript' = [transcript EXCEPT ![t] = {"certificate"}]
    /\ UNCHANGED <<vars, sessionInput, nonce_input, listed, report, out_evidence, overlapped>>

reset_session(t) ==
    /\ LibraryCall(t, "corelib", "reset") /\ ThenStep(t, "report")
    /\ transcript' = [transcript EXCEPT ![t] = {}]
    /\ UNCHANGED <<vars, sessionInput, nonce_input, listed, report, out_evidence, overlapped>>

get_measurement_transcript(t) ==
    /\ LibraryCall(t, "corelib", "report") /\ ThenStep(t, "evidence")
    /\ SetReport(t, IF transcript[t] = {} THEN nonce_input[t] ELSE Mixed)
    /\ transcript' = [transcript EXCEPT ![t] = {}]      \* the client is destroyed
    /\ UNCHANGED <<vars, sessionInput, nonce_input, listed, out_evidence, overlapped>>

\* Where the loop over the devices begins.
LoopStep == [nvml |-> "report", nscq |-> "input", corelib |-> "digests"][library]

\* Variation: the loop ends one device early.
AddEvidenceStopsEarly(t) ==
    LET done == Len(out_evidence[t]) + 1
    IN  /\ step[t] = "evidence" /\ Running
        /\ out_evidence' = [out_evidence EXCEPT ![t] =
              Append(@, [device |-> listed[t][done], nonce |-> nonce_input[t],
                         reportNonce |-> report[t]])]
        /\ ThenStep(t, IF done + 1 >= Len(listed[t]) THEN "Ok" ELSE LoopStep)
        /\ UNCHANGED <<vars, sessionInput, transcript, nonce_input, listed, report, overlapped>>

\* Certificate chain (and TNVL status of a switch); the evidence is complete,
\* and the loop goes on with the next device.
AddEvidence(t) ==
    LET done == Len(out_evidence[t]) + 1
    IN  /\ step[t] = "evidence" /\ Running
        /\ out_evidence' = [out_evidence EXCEPT ![t] =
              Append(@, [device |-> listed[t][done], nonce |-> nonce_input[t],
                         reportNonce |-> report[t]])]
        /\ ThenStep(t, IF done = Len(listed[t]) THEN "Ok" ELSE LoopStep)
        /\ UNCHANGED <<vars, sessionInput, transcript, nonce_input, listed, report, overlapped>>

\* NSCQ's functions return an error when the table was emptied, but for the
\* observation of a report, before which only SetInput has looked.
LooksFirst(t) == library = "nscq" /\ step[t] # "report"

\* Variation: after a failure the device is tried again.
CallRetries(t) ==
    /\ Collecting(t) /\ (g_funcs = "loaded" \/ LooksFirst(t))
    /\ ThenStep(t, IF listed[t] = <<>> THEN "Error" ELSE LoopStep)
    /\ UNCHANGED <<vars, sessionInput, transcript, nonce_input, listed, report, out_evidence, overlapped>>

\* Any call may fail, and ends the collection; what was collected stays in
\* out_evidence, the SPDM client is destroyed.
CallFails(t) ==
    /\ Collecting(t) /\ ThenStep(t, "Error")
    /\ g_funcs = "loaded" \/ LooksFirst(t)
    /\ transcript' = [transcript EXCEPT ![t] = {}]
    /\ UNCHANGED <<vars, sessionInput, nonce_input, listed, report, out_evidence, overlapped>>

CollectStep(t) ==
    \/ \E nonce \in Nonces \cup {Empty, Short} : collect_evidence(t, nonce)
    \/ CheckMode(t) \/ get_device_count(t) \/ get_attestation_report_nvml(t)
    \/ get_all_switch_uuid(t) \/ get_switch_architecture(t) \/ SetInput(t) \/ Observe(t)
    \/ CreateManager(t) \/ discover_inband_gpus(t) \/ get_digests(t) \/ get_certificate(t)
    \/ reset_session(t) \/ get_measurement_transcript(t)
    \/ AddEvidence(t) \/ CallFails(t)

\* get_evidence returns, and the caller takes the evidence.
Return(t) ==
    /\ At(t, "failed") \/ step[t] \in Ends
    /\ Leave(t)
    /\ ThenStep(t, "none")
    /\ nonce_input' = [nonce_input EXCEPT ![t] = Empty]
    /\ SetListed(t, <<>>)
    /\ SetReport(t, Empty)
    /\ out_evidence' = [out_evidence EXCEPT ![t] = <<>>]
    /\ UNCHANGED <<sessionInput, transcript, overlapped>>

LibraryStep(t) ==
    /\ InitStep(t) \/ ShutdownStep(t) \/ (Collecting(t) /\ CallCrashes(t))
    /\ UNCHANGED collection

allVars == <<vars, collection>>

\* A process that crashed stays so.
Crashed == crashed /\ UNCHANGED allVars

CollectorsNext ==
    \/ /\ ~crashed
       /\ \E t \in Threads :
             \/ (Call(t) \/ CallShutdown(t)) /\ UNCHANGED collection
             \/ LibraryStep(t) \/ CollectStep(t) \/ Return(t)
    \/ Crashed

\* A thread inside get_evidence or shutdown keeps running.
CollectorsSpec ==
    /\ CollectorsInit /\ [][CollectorsNext]_allVars
    /\ \A t \in Threads : WF_allVars(~crashed /\ (LibraryStep(t) \/ CollectStep(t)))

-----------------------------------------------------------------------------
\* Ok means evidence of every device that was listed, each once and in the
\* order of the list, whatever failed, ran beside it or was shut down.
OkIsComplete ==
    \A t \in Threads :
        step[t] = "Ok" =>
            /\ Len(out_evidence[t]) = Len(listed[t])
            /\ \A i \in 1..Len(listed[t]) : out_evidence[t][i].device = listed[t][i]

\* "The nonce used to collect the evidence." (nvat.h.in): as long as
\* collections do not overlap, the report inside a piece of evidence was made
\* with the nonce the evidence carries, also after a collection with another
\* nonce that failed half way, and begins with the request for measurements.
\* Only NVML collects without a nonce.
SerialNonceWasUsed ==
    ~overlapped =>
        \A t \in Threads : \A i \in DOMAIN out_evidence[t] :
            LET evidence == out_evidence[t][i]
            IN  \/ evidence.reportNonce = evidence.nonce /\ evidence.nonce \in Nonces
                \/ evidence.reportNonce = Zeros /\ evidence.nonce = Empty /\ library = "nvml"

\* get_evidence comes to an end: no thread waits in call_once forever, and the
\* loop over the devices ends.  It fails to return in one way only: the process
\* crashes, after a shutdown ran beside another call.
GetEvidenceReturns ==
    \A t \in Threads :
        At(t, "init") ~> At(t, "failed") \/ step[t] \in Ends \/ (crashed /\ ~quiet)

=============================================================================
