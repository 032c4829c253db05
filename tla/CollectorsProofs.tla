-------------------------- MODULE CollectorsProofs --------------------------
(***************************************************************************)
(* What holds of a driver library that any number of threads load, use and *)
(* shut down, and of the collectors for every set of threads, devices and  *)
(* nonces.  The fairness of the specification is not used.                 *)
(***************************************************************************)
EXTENDS Collectors, TLAPS

(* Loading a library.  The lambda of call_once runs at most once in the    *)
(* life of the process, in one thread, and nothing can be shut down before *)
(* it has published the flag.                                              *)

InLambda == {"dlopen", "symbols", "start", "publish"}
InTearDown == {"stop", "close", "reset"}
InShutdown == InTearDown \cup {"shutdown", "options"}

LoadedOnce ==
    /\ \A t \in Threads : pc[t] \in InLambda => once = "running"
    /\ \A t, u \in Threads : pc[t] \in InLambda /\ pc[u] \in InLambda => t = u
    /\ \A t \in Threads : pc[t] \in {"symbols", "start", "publish"} => library_handle
    /\ \A t \in Threads : pc[t] \in {"start", "publish"} => g_funcs = "loaded"
    /\ \A t \in Threads : pc[t] \in {"dlopen", "symbols", "start"} => starts = 0 /\ driver = "down"
    /\ \A t \in Threads : At(t, "publish") /\ library # "corelib" => driver = "up"
    /\ once = "fresh" => starts = 0 /\ driver = "down"
    /\ once # "done" => ~ g_initialized /\ \A t \in Threads : pc[t] \notin InTearDown
    /\ \A t \in Threads : pc[t] \in {"close", "reset"} => driver = "down"

\* While quiet holds, a thread in shutdown is alone, and the flag tells the
\* truth except between the end of the driver and the end of the flag; so a
\* shutdown stops what runs and closes what is open, and nothing crashes.
QuietInv ==
    quiet =>
        /\ ~crashed
        /\ \A t, u \in Threads : pc[t] \in InShutdown /\ u # t => At(u, "idle")
        /\ g_initialized => Running \/ \E t \in Threads : pc[t] \in {"close", "reset"}
        /\ \A t \in Threads : At(t, "collect") \/ At(t, "stop") => g_initialized
        /\ \A t \in Threads : At(t, "close") => library_handle

DInv == TypeOK /\ StartedOnceAndOwned /\ LoadedOnce /\ QuietInv

\* DInv holds when the process starts.
LEMMA DInvInit == Init => DInv
<1> SUFFICES ASSUME Init PROVE DInv
  OBVIOUS
<1>1. TypeOK
  BY Zenon DEF Init, TypeOK
<1>2. StartedOnceAndOwned
  BY DEF Init, StartedOnceAndOwned
<1>3. LoadedOnce
  BY DEF Init, LoadedOnce, At, InLambda, InTearDown
<1>4. QuietInv
  BY DEF Init, QuietInv, At, InTearDown, InShutdown
<1>5. QED
  BY <1>1, <1>2, <1>3, <1>4 DEF DInv

\* DInv is inductive: it has the two properties, and what they need.
LEMMA DInvNext == DInv /\ [Next]_vars => DInv'
<1> SUFFICES ASSUME DInv, [Next]_vars PROVE DInv'
  OBVIOUS
<1> USE DEF DInv, TypeOK, StartedOnceAndOwned, LoadedOnce, QuietInv, Running, At, Goto,
            InLambda, InTearDown, InShutdown
<1>1. CASE UNCHANGED vars
  BY <1>1 DEF vars
<1>2. ASSUME NEW t \in Threads, Call(t) PROVE DInv'
  <2>1. TypeOK'
    BY <1>2 DEF Call
  <2>2. StartedOnceAndOwned'
    BY <1>2 DEF Call
  <2>3. LoadedOnce'
    BY <1>2 DEF Call
  <2>4. QuietInv'
    BY <1>2, Zenon DEF Call
  <2>5. QED
    BY <2>1, <2>2, <2>3, <2>4
<1>3. ASSUME NEW t \in Threads, CheckFlag(t) PROVE DInv'
  BY <1>3 DEF CheckFlag
<1>4. ASSUME NEW t \in Threads, EnterOnce(t) PROVE DInv'
  BY <1>4 DEF EnterOnce
<1>5. ASSUME NEW t \in Threads, PassOnce(t) PROVE DInv'
  BY <1>5 DEF PassOnce
<1>6. ASSUME NEW t \in Threads, Publish(t) PROVE DInv'
  BY <1>6 DEF Publish, LeaveOnce
<1>7. ASSUME NEW t \in Threads, Leave(t) PROVE DInv'
  BY <1>7 DEF Leave
<1>8. ASSUME NEW t \in Threads, CallShutdown(t) PROVE DInv'
  <2>1. TypeOK'
    BY <1>8 DEF CallShutdown
  <2>2. StartedOnceAndOwned'
    BY <1>8 DEF CallShutdown
  <2>3. LoadedOnce'
    BY <1>8 DEF CallShutdown
  <2>4. QuietInv'
    BY <1>8, Zenon DEF CallShutdown
  <2>5. QED
    BY <2>1, <2>2, <2>3, <2>4
<1>9. ASSUME NEW t \in Threads, CheckShutdown(t) PROVE DInv'
  BY <1>9 DEF CheckShutdown
<1>10. ASSUME NEW t \in Threads, StopDriver(t) PROVE DInv'
  BY <1>10 DEF StopDriver
<1>11. ASSUME NEW t \in Threads, CloseLibrary(t) PROVE DInv'
  <2>1. TypeOK'
    BY <1>11, Zenon DEF CloseLibrary
  <2>2. StartedOnceAndOwned'
    BY <1>11 DEF CloseLibrary
  <2>3. LoadedOnce'
    BY <1>11 DEF CloseLibrary
  <2>4. QuietInv'
    BY <1>11 DEF CloseLibrary
  <2>5. QED
    BY <2>1, <2>2, <2>3, <2>4
<1>12. ASSUME NEW t \in Threads, ClearFlag(t) PROVE DInv'
  <2>1. TypeOK'
    BY <1>12, Zenon DEF ClearFlag
  <2>2. StartedOnceAndOwned'
    BY <1>12 DEF ClearFlag
  <2>3. LoadedOnce'
    BY <1>12 DEF ClearFlag
  <2>4. QuietInv'
    BY <1>12 DEF ClearFlag
  <2>5. QED
    BY <2>1, <2>2, <2>3, <2>4
<1>13. ASSUME NEW t \in Threads, DeleteOptions(t) PROVE DInv'
  <2>1. TypeOK'
    BY <1>13, Zenon DEF DeleteOptions
  <2>2. StartedOnceAndOwned'
    BY <1>13 DEF DeleteOptions
  <2>3. LoadedOnce'
    BY <1>13 DEF DeleteOptions
  <2>4. QuietInv'
    BY <1>13 DEF DeleteOptions
  <2>5. QED
    BY <2>1, <2>2, <2>3, <2>4
<1>14. ASSUME NEW t \in Threads, NEW ok \in BOOLEAN, Dlopen(t, ok) PROVE DInv'
  BY <1>14 DEF Dlopen, LeaveOnce
<1>15. ASSUME NEW t \in Threads, NEW ok \in BOOLEAN, LoadSymbols(t, ok) PROVE DInv'
  <2>1. TypeOK'
    BY <1>15, Zenon DEF LoadSymbols, LeaveOnce, AfterSymbols
  <2>2. StartedOnceAndOwned'
    BY <1>15 DEF LoadSymbols, LeaveOnce, AfterSymbols
  <2>3. LoadedOnce'
    BY <1>15 DEF LoadSymbols, LeaveOnce, AfterSymbols
  <2>4. QuietInv'
    BY <1>15 DEF LoadSymbols, LeaveOnce, AfterSymbols
  <2>5. QED
    BY <2>1, <2>2, <2>3, <2>4
<1>16. ASSUME NEW t \in Threads, NEW ok \in BOOLEAN, Start(t, ok) PROVE DInv'
  <2>1. TypeOK'
    <3>1. starts' \in Nat
      BY <1>16 DEF Start
    <3>2. QED
      BY <1>16, <3>1, Zenon DEF Start, LeaveOnce
  <2>2. StartedOnceAndOwned'
    BY <1>16 DEF Start, LeaveOnce
  <2>3. LoadedOnce'
    BY <1>16 DEF Start, LeaveOnce
  <2>4. QuietInv'
    BY <1>16 DEF Start, LeaveOnce
  <2>5. QED
    BY <2>1, <2>2, <2>3, <2>4
<1>17. ASSUME NEW t \in Threads, CallCrashes(t) \/ ShutdownCrashes(t) PROVE DInv'
  <2>1. ~quiet
    BY <1>17 DEF CallCrashes, ShutdownCrashes
  <2>2. crashed' = TRUE /\ UNCHANGED <<library, g_sdkOptions, g_initialized, once, library_handle,
                                       g_funcs, driver, starts, quiet, pc>>
    BY <1>17, Zenon DEF CallCrashes, ShutdownCrashes, Crash
  <2>3. TypeOK' /\ StartedOnceAndOwned'
    BY <2>2
  <2>4. LoadedOnce'
    BY <2>2
  <2>5. QuietInv'
    BY <2>1, <2>2
  <2>6. QED
    BY <2>3, <2>4, <2>5
<1>18. QED
  BY <1>1, <1>2, <1>3, <1>4, <1>5, <1>6, <1>7, <1>8,
     <1>9, <1>10, <1>11, <1>12, <1>13, <1>14, <1>15, <1>16, <1>17,
     Zenon DEF Next, InitStep, ShutdownStep

-----------------------------------------------------------------------------
\* DInv in every state of every behaviour.
LEMMA DInvAlways == Spec => []DInv
BY DInvInit, DInvNext, PTL DEF Spec

\* StartedOnceAndOwned for any number of threads: NVML and NSCQ are started at
\* most once in the life of the process, and a running driver has a handle.
THEOREM DriverStartedOnce == Spec => []StartedOnceAndOwned
<1>1. DInv => StartedOnceAndOwned
  BY DEF DInv
<1>2. QED
  BY <1>1, DInvAlways, PTL

\* CollectsFromRunningLibrary for any number of threads: until a shutdown meets
\* a call, whoever collects has a loaded library and a started driver, and no
\* call crashes.
THEOREM LibraryAlwaysRunning == Spec => []CollectsFromRunningLibrary
<1>1. DInv => CollectsFromRunningLibrary
  BY DEF DInv, QuietInv, CollectsFromRunningLibrary, Running, At, InShutdown, InTearDown
<1>2. QED
  BY <1>1, DInvAlways, PTL

-----------------------------------------------------------------------------
(* The collectors.                                                         *)

Steps == {"none", "mode", "manager", "list", "arch", "input", "digests", "certs", "reset",
          "report", "evidence", "Ok", "Error"}

\* Where nothing has been collected yet.
Early == {"none", "mode", "manager", "list", "arch"}

\* Evidence that t may hold.
Gathered(t) ==
    [device : {listed[t][i] : i \in Nat}, nonce : Nonces \cup {Empty, Short},
     reportNonce : Nonces \cup {Empty, Zeros, Mixed}]

CollectionTypeOK ==
    /\ sessionInput \in Nonces \cup {Empty}
    /\ step \in [Threads -> Steps]
    /\ nonce_input \in [Threads -> Nonces \cup {Empty, Short}]
    /\ report \in [Threads -> Nonces \cup {Empty, Zeros, Mixed}]
    /\ DOMAIN transcript = Threads /\ DOMAIN listed = Threads /\ DOMAIN out_evidence = Threads
    /\ overlapped \in BOOLEAN

OutIsSeq == \A t \in Threads : out_evidence[t] \in Seq(Gathered(t))

\* The loop fills out_evidence in the order of a list that it does not change.
Filling ==
    \A t \in Threads :
        /\ step[t] \in Early => out_evidence[t] = <<>>
        /\ \A i \in DOMAIN out_evidence[t] : out_evidence[t][i].device = listed[t][i]
        /\ step[t] = "Ok" => Len(out_evidence[t]) = Len(listed[t])

Fits(reportNonce, nonce) ==
    \/ reportNonce = nonce /\ nonce \in Nonces
    \/ reportNonce = Zeros /\ nonce = Empty /\ library = "nvml"

\* A Corelib collection has a nonce, and asks for measurements with an empty
\* transcript.
CorelibInv ==
    library = "corelib" =>
        \A t \in Threads :
            /\ Collecting(t) => nonce_input[t] \in Nonces
            /\ step[t] = "report" => transcript[t] = {}

\* While collections do not overlap, the input of the session belongs to the
\* one that is under way.
SerialInv ==
    ~overlapped =>
        /\ \A t, u \in Threads : Collecting(t) /\ Collecting(u) => t = u
        /\ \A t \in Threads :
              library = "nscq" /\ step[t] = "report" =>
                  sessionInput = nonce_input[t] /\ nonce_input[t] \in Nonces
        /\ \A t \in Threads : step[t] = "evidence" => Fits(report[t], nonce_input[t])
        /\ \A t \in Threads : \A i \in DOMAIN out_evidence[t] :
              Fits(out_evidence[t][i].reportNonce, out_evidence[t][i].nonce)

\* What the collectors add to the invariant of the library.
CollectionInv == CollectionTypeOK /\ OutIsSeq /\ Filling /\ CorelibInv /\ SerialInv

CInv == DInv /\ CollectionInv

\* CInv holds when the process starts.
LEMMA CInvInit == CollectorsInit => CInv
<1> SUFFICES ASSUME CollectorsInit PROVE CInv
  OBVIOUS
<1>1. DInv
  BY DInvInit DEF CollectorsInit
<1>2. CollectionTypeOK
  BY Zenon DEF CollectorsInit, CollectionTypeOK, Steps
<1>3. OutIsSeq /\ Filling
  BY DEF CollectorsInit, OutIsSeq, Filling, Early
<1>4. CorelibInv
  BY DEF CollectorsInit, CorelibInv, Collecting, Ends
<1>5. SerialInv
  BY DEF CollectorsInit, SerialInv, Collecting, Ends
<1>6. QED
  BY <1>1, <1>2, <1>3, <1>4, <1>5 DEF CInv, CollectionInv

\* A step of the collectors is one of the library, or none.
LEMMA LibrarySteps == [CollectorsNext]_allVars => [Next]_vars
<1>1. ASSUME NEW t \in Threads, CollectStep(t) PROVE UNCHANGED vars
  BY <1>1, Zenon DEF CollectStep, collect_evidence, CheckMode, get_device_count,
     get_attestation_report_nvml, get_all_switch_uuid, get_switch_architecture, SetInput, Observe,
     CreateManager, discover_inband_gpus, get_digests, get_certificate, reset_session,
     get_measurement_transcript, AddEvidence, CallFails, vars
<1>2. ASSUME ~crashed, NEW t \in Threads, Return(t) PROVE Next
  BY <1>2, Zenon DEF Return, Next
<1>3. ASSUME ~crashed, NEW t \in Threads, LibraryStep(t) PROVE Next
  BY <1>3, Zenon DEF LibraryStep, Next
<1>4. ASSUME UNCHANGED allVars PROVE UNCHANGED vars
  BY <1>4 DEF allVars, vars
<1>5. QED
  BY <1>1, <1>2, <1>3, <1>4, Zenon DEF CollectorsNext, Crashed, Next

\* The library of a behaviour is one of the three.
LEMMA OneOfThree == CInv => library \in {"nvml", "nscq", "corelib"}
BY DEF CInv, DInv, TypeOK

\* collect_evidence keeps the invariant of the collectors.
LEMMA StartKeeps ==
    ASSUME CInv, NEW t \in Threads, NEW nonce \in Nonces \cup {Empty, Short},
           collect_evidence(t, nonce)
    PROVE  CollectionInv'
<1> DEFINE label == IF Refused(nonce) THEN "Error" ELSE FirstStep
<1>1. CollectionTypeOK /\ OutIsSeq /\ Filling /\ CorelibInv /\ SerialInv
  BY Zenon DEF CInv, CollectionInv
<1>2. /\ label \in {"Error", "mode", "list", "manager"}
      /\ library = "corelib" => label = "Error" \/ nonce \in Nonces
  BY OneOfThree DEF FirstStep, Refused
<1>3. /\ step[t] = "none" /\ step' = [step EXCEPT ![t] = label]
      /\ nonce_input' = [nonce_input EXCEPT ![t] = nonce]
      /\ overlapped' = (overlapped \/ \E u \in Threads : Collecting(u))
      /\ UNCHANGED <<library, sessionInput, transcript, listed, report, out_evidence>>
  BY Zenon DEF collect_evidence, ThenStep, vars
<1> HIDE DEF label
<1>4. /\ step'[t] = label /\ nonce_input'[t] = nonce
      /\ \A u \in Threads : u # t => step'[u] = step[u] /\ nonce_input'[u] = nonce_input[u]
  BY <1>1, <1>3 DEF CollectionTypeOK
<1>5. CollectionTypeOK'
  <2>1. step' \in [Threads -> Steps]
    BY <1>1, <1>2, <1>3 DEF CollectionTypeOK, Steps
  <2>2. nonce_input' \in [Threads -> Nonces \cup {Empty, Short}]
    BY <1>1, <1>3 DEF CollectionTypeOK
  <2>3. overlapped' \in BOOLEAN
    BY <1>3, Zenon
  <2> QED
    BY <1>1, <1>3, <2>1, <2>2, <2>3, Zenon DEF CollectionTypeOK
<1>6. OutIsSeq'
  <2>1. \A u \in Threads : Gathered(u)' = Gathered(u)
    BY <1>3, Zenon DEF Gathered
  <2>2. QED
    BY <1>1, <1>3, <2>1, Zenon DEF OutIsSeq
<1>7. Filling'
  BY <1>1, <1>2, <1>3, <1>4 DEF Filling, Early
<1>8. CorelibInv'
  BY <1>1, <1>2, <1>3, <1>4 DEF CorelibInv, Collecting, Ends
<1>9. SerialInv'
  <2> SUFFICES ASSUME ~overlapped' PROVE SerialInv'
    BY Zenon DEF SerialInv
  <2>1. ~overlapped /\ \A u \in Threads : ~Collecting(u)
    BY <1>3, Zenon
  <2>2. \A u \in Threads : u # t => ~Collecting(u)'
    BY <1>4, <2>1, Zenon DEF Collecting
  <2>3. step'[t] # "report" /\ step'[t] # "evidence"
    BY <1>2, <1>4
  <2> QED
    BY <1>1, <1>3, <1>4, <2>1, <2>2, <2>3 DEF SerialInv, Fits
<1>10. QED
  BY <1>5, <1>6, <1>7, <1>8, <1>9, Zenon DEF CollectionInv

\* A step of t inside its collection, which leaves the others alone: the list
\* may change as long as there is no evidence, and a report is asked for, and
\* taken for evidence, as CorelibInv and SerialInv want it.
Moves(t) ==
    /\ Collecting(t) /\ CollectionTypeOK'
    /\ UNCHANGED <<library, nonce_input, out_evidence, overlapped>>
    /\ \A u \in Threads : u # t => /\ step'[u] = step[u] /\ listed'[u] = listed[u]
                                   /\ report'[u] = report[u] /\ transcript'[u] = transcript[u]
    /\ listed'[t] = listed[t] \/ step[t] \in Early
    /\ step'[t] \in Early => step[t] \in Early
    /\ step'[t] = "Ok" => step[t] \in Early /\ listed'[t] = <<>>
    /\ step'[t] = "report" =>
          /\ library = "corelib" => transcript'[t] = {}
          /\ library = "nscq" => sessionInput' = nonce_input[t] /\ nonce_input[t] \in Nonces
    /\ step'[t] = "evidence" /\ ~overlapped => Fits(report'[t], nonce_input[t])

\* Such a step keeps the invariant of the collectors.
LEMMA MovesKeep ==
    ASSUME CInv, NEW t \in Threads, Moves(t) PROVE CollectionInv'
<1>1. CollectionTypeOK /\ OutIsSeq /\ Filling /\ CorelibInv /\ SerialInv
  BY Zenon DEF CInv, CollectionInv
<1>2. /\ Collecting(t) /\ CollectionTypeOK'
      /\ UNCHANGED <<library, nonce_input, out_evidence, overlapped>>
  BY Zenon DEF Moves
<1>3. ASSUME NEW u \in Threads, u # t
      PROVE  /\ step'[u] = step[u] /\ listed'[u] = listed[u]
             /\ report'[u] = report[u] /\ transcript'[u] = transcript[u]
  BY <1>3, Zenon DEF Moves
<1>4. \A u \in Threads : listed'[u] = listed[u] \/ out_evidence[u] = <<>>
  BY <1>1, <1>3, Zenon DEF Moves, Filling
<1>5. OutIsSeq'
  <2> SUFFICES ASSUME NEW u \in Threads PROVE (out_evidence[u] \in Seq(Gathered(u)))'
    BY Zenon DEF OutIsSeq
  <2>1. CASE listed'[u] = listed[u]
    <3>1. Gathered(u)' = Gathered(u)
      BY <2>1, Zenon DEF Gathered
    <3>2. QED
      BY <1>1, <1>2, <3>1, Zenon DEF OutIsSeq
  <2>2. CASE out_evidence[u] = <<>>
    <3>1. out_evidence'[u] = <<>>
      BY <1>2, <2>2, Zenon
    <3>2. QED
      BY <3>1
  <2>3. QED
    BY <1>4, <2>1, <2>2, Zenon
<1>6. Filling'
  <2> SUFFICES ASSUME NEW u \in Threads
               PROVE  /\ step'[u] \in Early => out_evidence[u] = <<>>
                      /\ \A i \in DOMAIN out_evidence[u] : out_evidence[u][i].device = listed'[u][i]
                      /\ step'[u] = "Ok" => Len(out_evidence[u]) = Len(listed'[u])
    BY <1>2, Zenon DEF Filling
  <2>1. CASE u # t
    BY <1>1, <1>3, <2>1, Zenon DEF Filling
  <2>2. step'[t] \in Early => out_evidence[t] = <<>>
    BY <1>1, Zenon DEF Moves, Filling
  <2>3. \A i \in DOMAIN out_evidence[t] : out_evidence[t][i].device = listed'[t][i]
    <3>1. CASE listed'[t] = listed[t]
      BY <1>1, <3>1, Zenon DEF Filling
    <3>2. CASE out_evidence[t] = <<>>
      BY <3>2
    <3>3. QED
      BY <1>4, <3>1, <3>2, Zenon
  <2>4. step'[t] = "Ok" => Len(out_evidence[t]) = Len(listed'[t])
    BY <1>1, Zenon DEF Moves, Filling
  <2>5. QED
    BY <2>1, <2>2, <2>3, <2>4, Zenon
<1>7. CorelibInv'
  <2> SUFFICES ASSUME library = "corelib", NEW u \in Threads
               PROVE  /\ Collecting(u)' => nonce_input[u] \in Nonces
                      /\ step'[u] = "report" => transcript'[u] = {}
    BY <1>2, Zenon DEF CorelibInv
  <2>1. CASE u # t
    BY <1>1, <1>3, <2>1, Zenon DEF CorelibInv, Collecting
  <2>2. nonce_input[t] \in Nonces
    BY <1>1, <1>2, Zenon DEF CorelibInv
  <2>3. step'[t] = "report" => transcript'[t] = {}
    BY Zenon DEF Moves
  <2>4. QED
    BY <2>1, <2>2, <2>3, Zenon
<1>8. SerialInv'
  <2> SUFFICES ASSUME ~overlapped PROVE SerialInv'
    BY <1>2, Zenon DEF SerialInv
  <2>1. \A u \in Threads : u # t => ~Collecting(u) /\ ~Collecting(u)'
    BY <1>1, <1>2, <1>3, Zenon DEF SerialInv, Collecting
  <2>2. \A u, w \in Threads : Collecting(u)' /\ Collecting(w)' => u = w
    BY <2>1, Zenon
  <2>3. \A u \in Threads : step'[u] \in {"report", "evidence"} => u = t
    BY <2>1 DEF Collecting, Ends
  <2>4. \A u \in Threads : library' = "nscq" /\ step'[u] = "report" =>
            sessionInput' = nonce_input'[u] /\ nonce_input'[u] \in Nonces
    BY <1>2, <2>3, Zenon DEF Moves
  <2>5. \A u \in Threads : step'[u] = "evidence" => Fits(report[u], nonce_input[u])'
    BY <1>2, <2>3, Zenon DEF Moves, Fits
  <2>6. (\A u \in Threads : \A i \in DOMAIN out_evidence[u] :
            Fits(out_evidence[u][i].reportNonce, out_evidence[u][i].nonce))'
    BY <1>1, <1>2, Zenon DEF SerialInv, Fits
  <2>7. QED
    BY <2>2, <2>4, <2>5, <2>6, Zenon DEF SerialInv
<1>9. QED
  BY <1>1, <1>2, <1>5, <1>6, <1>7, <1>8, Zenon DEF CollectionInv

\* What ThenStep does to step.
LEMMA StepIs ==
    ASSUME CInv, NEW t \in Threads, NEW labels, labels \subseteq Steps,
           \E label \in labels : ThenStep(t, label)
    PROVE  /\ step' \in [Threads -> Steps] /\ step'[t] \in labels
           /\ \A u \in Threads : u # t => step'[u] = step[u]
<1>1. step \in [Threads -> Steps]
  BY Zenon DEF CInv, CollectionInv, CollectionTypeOK
<1>2. QED
  BY <1>1 DEF ThenStep

\* CheckMode keeps the invariant of the collectors.
LEMMA CheckModeKeeps ==
    ASSUME CInv, NEW t \in Threads, CheckMode(t) PROVE CollectionInv'
<1>1. CollectionTypeOK /\ SerialInv /\ CorelibInv
  BY Zenon DEF CInv, CollectionInv
<1>2. /\ step[t] = "mode" /\ library = "nvml"
      /\ \E label \in {"list", "Error"} : ThenStep(t, label)
      /\ UNCHANGED <<library, sessionInput, transcript, listed, report, nonce_input, out_evidence, overlapped>>
  BY Zenon DEF CheckMode, LibraryCall, vars
<1>3. /\ step' \in [Threads -> Steps] /\ step'[t] \in {"list", "Error"}
      /\ \A u \in Threads : u # t => step'[u] = step[u]
  <2>1. {"list", "Error"} \subseteq Steps
    BY DEF Steps
  <2>2. QED
    BY <1>2, <2>1, StepIs, Zenon
<1>4. CollectionTypeOK'
  BY <1>1, <1>2, <1>3, Zenon DEF CollectionTypeOK
<1>5. Moves(t)
  BY <1>1, <1>2, <1>3, <1>4, Zenon DEF Moves, Collecting, Ends, Early
<1>6. QED
  BY <1>5, MovesKeep, Zenon

\* get_device_count keeps the invariant of the collectors.
LEMMA CountKeeps ==
    ASSUME CInv, NEW t \in Threads, get_device_count(t) PROVE CollectionInv'
<1>1. CollectionTypeOK /\ SerialInv /\ CorelibInv
  BY Zenon DEF CInv, CollectionInv
<1>2. /\ step[t] = "list" /\ library = "nvml"
      /\ \E label \in {"report", "Error"} : ThenStep(t, label)
      /\ UNCHANGED <<library, sessionInput, transcript, report, nonce_input, out_evidence, overlapped>>
  BY Zenon DEF get_device_count, LibraryCall, vars
<1>3. /\ step' \in [Threads -> Steps] /\ step'[t] \in {"report", "Error"}
      /\ \A u \in Threads : u # t => step'[u] = step[u]
  <2>1. {"report", "Error"} \subseteq Steps
    BY DEF Steps
  <2>2. QED
    BY <1>2, <2>1, StepIs, Zenon
<1>4. /\ DOMAIN listed' = Threads
      /\ \A u \in Threads : u # t => listed'[u] = listed[u]
  BY <1>1 DEF get_device_count, SetListed, CollectionTypeOK
<1>5. CollectionTypeOK'
  BY <1>1, <1>2, <1>3, <1>4, Zenon DEF CollectionTypeOK
<1>6. Moves(t)
  BY <1>1, <1>2, <1>3, <1>4, <1>5, Zenon DEF Moves, Collecting, Ends, Early
<1>7. QED
  BY <1>6, MovesKeep, Zenon

\* get_attestation_report_nvml keeps the invariant of the collectors.
LEMMA NvmlReportKeeps ==
    ASSUME CInv, NEW t \in Threads, get_attestation_report_nvml(t) PROVE CollectionInv'
<1>1. CollectionTypeOK /\ SerialInv /\ CorelibInv
  BY Zenon DEF CInv, CollectionInv
<1>2. /\ step[t] = "report" /\ library = "nvml"
      /\ \E label \in {"evidence", "Error"} : ThenStep(t, label)
      /\ UNCHANGED <<library, sessionInput, transcript, listed, nonce_input, out_evidence, overlapped>>
  BY Zenon DEF get_attestation_report_nvml, LibraryCall, vars
<1>3. /\ step' \in [Threads -> Steps] /\ step'[t] \in {"evidence", "Error"}
      /\ \A u \in Threads : u # t => step'[u] = step[u]
  <2>1. {"evidence", "Error"} \subseteq Steps
    BY DEF Steps
  <2>2. QED
    BY <1>2, <2>1, StepIs, Zenon
<1>4. /\ report' \in [Threads -> Nonces \cup {Empty, Zeros, Mixed}]
      /\ \A u \in Threads : u # t => report'[u] = report[u]
      /\ step'[t] = "evidence" => Fits(report'[t], nonce_input[t])
  BY <1>1, <1>2, <1>3 DEF get_attestation_report_nvml, SetReport, CollectionTypeOK, ThenStep, Fits
<1>5. CollectionTypeOK'
  BY <1>1, <1>2, <1>3, <1>4, Zenon DEF CollectionTypeOK
<1>6. Moves(t)
  BY <1>1, <1>2, <1>3, <1>4, <1>5, Zenon DEF Moves, Collecting, Ends, Early
<1>7. QED
  BY <1>6, MovesKeep, Zenon

\* get_all_switch_uuid keeps the invariant of the collectors.
LEMMA SwitchListKeeps ==
    ASSUME CInv, NEW t \in Threads, get_all_switch_uuid(t) PROVE CollectionInv'
<1>1. CollectionTypeOK /\ SerialInv /\ CorelibInv
  BY Zenon DEF CInv, CollectionInv
<1>2. /\ step[t] = "list" /\ library = "nscq"
      /\ \E label \in {"arch", "Error"} : ThenStep(t, label)
      /\ UNCHANGED <<library, sessionInput, transcript, report, nonce_input, out_evidence, overlapped>>
  BY Zenon DEF get_all_switch_uuid, LibraryCall, vars
<1>3. /\ step' \in [Threads -> Steps] /\ step'[t] \in {"arch", "Error"}
      /\ \A u \in Threads : u # t => step'[u] = step[u]
  <2>1. {"arch", "Error"} \subseteq Steps
    BY DEF Steps
  <2>2. QED
    BY <1>2, <2>1, StepIs, Zenon
<1>4. /\ DOMAIN listed' = Threads
      /\ \A u \in Threads : u # t => listed'[u] = listed[u]
  BY <1>1 DEF get_all_switch_uuid, SetListed, CollectionTypeOK
<1>5. CollectionTypeOK'
  BY <1>1, <1>2, <1>3, <1>4, Zenon DEF CollectionTypeOK
<1>6. Moves(t)
  BY <1>1, <1>2, <1>3, <1>4, <1>5, Zenon DEF Moves, Collecting, Ends, Early
<1>7. QED
  BY <1>6, MovesKeep, Zenon

\* get_switch_architecture keeps the invariant of the collectors.
LEMMA ArchitectureKeeps ==
    ASSUME CInv, NEW t \in Threads, get_switch_architecture(t) PROVE CollectionInv'
<1>1. CollectionTypeOK /\ SerialInv /\ CorelibInv
  BY Zenon DEF CInv, CollectionInv
<1>2. /\ step[t] = "arch" /\ library = "nscq"
      /\ \E label \in {"input"} : ThenStep(t, label)
      /\ UNCHANGED <<library, sessionInput, transcript, listed, report, nonce_input, out_evidence, overlapped>>
  BY Zenon DEF get_switch_architecture, LibraryCall, vars
<1>3. /\ step' \in [Threads -> Steps] /\ step'[t] \in {"input"}
      /\ \A u \in Threads : u # t => step'[u] = step[u]
  <2>1. {"input"} \subseteq Steps
    BY DEF Steps
  <2>2. QED
    BY <1>2, <2>1, StepIs, Zenon
<1>4. CollectionTypeOK'
  BY <1>1, <1>2, <1>3, Zenon DEF CollectionTypeOK
<1>5. Moves(t)
  BY <1>1, <1>2, <1>3, <1>4, Zenon DEF Moves, Collecting, Ends, Early
<1>6. QED
  BY <1>5, MovesKeep, Zenon

\* SetInput keeps the invariant of the collectors.
LEMMA SetInputKeeps ==
    ASSUME CInv, NEW t \in Threads, SetInput(t) PROVE CollectionInv'
<1>1. CollectionTypeOK /\ SerialInv /\ CorelibInv
  BY Zenon DEF CInv, CollectionInv
<1>2. /\ step[t] = "input" /\ library = "nscq"
      /\ \E label \in {"report", "Error"} : ThenStep(t, label)
      /\ UNCHANGED <<library, transcript, listed, report, nonce_input, out_evidence, overlapped>>
  BY Zenon DEF SetInput, LibraryCall, vars
<1>3. /\ step' \in [Threads -> Steps] /\ step'[t] \in {"report", "Error"}
      /\ \A u \in Threads : u # t => step'[u] = step[u]
  <2>1. {"report", "Error"} \subseteq Steps
    BY DEF Steps
  <2>2. QED
    BY <1>2, <2>1, StepIs, Zenon
<1>4. /\ sessionInput' \in Nonces \cup {Empty}
      /\ step'[t] = "report" => sessionInput' = nonce_input[t] /\ nonce_input[t] \in Nonces
  BY <1>1 DEF SetInput, ThenStep, CollectionTypeOK
<1>5. CollectionTypeOK'
  BY <1>1, <1>2, <1>3, <1>4, Zenon DEF CollectionTypeOK
<1>6. Moves(t)
  BY <1>1, <1>2, <1>3, <1>4, <1>5, Zenon DEF Moves, Collecting, Ends, Early
<1>7. QED
  BY <1>6, MovesKeep, Zenon

\* Observe keeps the invariant of the collectors.
LEMMA ObserveKeeps ==
    ASSUME CInv, NEW t \in Threads, Observe(t) PROVE CollectionInv'
<1>1. CollectionTypeOK /\ SerialInv /\ CorelibInv
  BY Zenon DEF CInv, CollectionInv
<1>2. /\ step[t] = "report" /\ library = "nscq"
      /\ \E label \in {"evidence"} : ThenStep(t, label)
      /\ UNCHANGED <<library, sessionInput, transcript, listed, nonce_input, out_evidence, overlapped>>
  BY Zenon DEF Observe, LibraryCall, vars
<1>3. /\ step' \in [Threads -> Steps] /\ step'[t] \in {"evidence"}
      /\ \A u \in Threads : u # t => step'[u] = step[u]
  <2>1. {"evidence"} \subseteq Steps
    BY DEF Steps
  <2>2. QED
    BY <1>2, <2>1, StepIs, Zenon
<1>4. /\ report' \in [Threads -> Nonces \cup {Empty, Zeros, Mixed}]
      /\ \A u \in Threads : u # t => report'[u] = report[u]
      /\ ~overlapped => Fits(report'[t], nonce_input[t])
  BY <1>1, <1>2 DEF Observe, SetReport, CollectionTypeOK, SerialInv, Fits
<1>5. CollectionTypeOK'
  BY <1>1, <1>2, <1>3, <1>4, Zenon DEF CollectionTypeOK
<1>6. Moves(t)
  BY <1>1, <1>2, <1>3, <1>4, <1>5, Zenon DEF Moves, Collecting, Ends, Early
<1>7. QED
  BY <1>6, MovesKeep, Zenon

\* CreateManager keeps the invariant of the collectors.
LEMMA ManagerKeeps ==
    ASSUME CInv, NEW t \in Threads, CreateManager(t) PROVE CollectionInv'
<1>1. CollectionTypeOK /\ SerialInv /\ CorelibInv
  BY Zenon DEF CInv, CollectionInv
<1>2. /\ step[t] = "manager" /\ library = "corelib"
      /\ \E label \in {"list", "Error"} : ThenStep(t, label)
      /\ UNCHANGED <<library, sessionInput, transcript, report, nonce_input, out_evidence, overlapped>>
  BY Zenon DEF CreateManager, LibraryCall, vars
<1>3. /\ step' \in [Threads -> Steps] /\ step'[t] \in {"list", "Error"}
      /\ \A u \in Threads : u # t => step'[u] = step[u]
  <2>1. {"list", "Error"} \subseteq Steps
    BY DEF Steps
  <2>2. QED
    BY <1>2, <2>1, StepIs, Zenon
<1>4. /\ DOMAIN listed' = Threads
      /\ \A u \in Threads : u # t => listed'[u] = listed[u]
  BY <1>1 DEF CreateManager, SetListed, CollectionTypeOK
<1>5. CollectionTypeOK'
  BY <1>1, <1>2, <1>3, <1>4, Zenon DEF CollectionTypeOK
<1>6. Moves(t)
  BY <1>1, <1>2, <1>3, <1>4, <1>5, Zenon DEF Moves, Collecting, Ends, Early
<1>7. QED
  BY <1>6, MovesKeep, Zenon

\* discover_inband_gpus keeps the invariant of the collectors.
LEMMA DiscoverKeeps ==
    ASSUME CInv, NEW t \in Threads, discover_inband_gpus(t) PROVE CollectionInv'
<1>1. CollectionTypeOK /\ SerialInv /\ CorelibInv
  BY Zenon DEF CInv, CollectionInv
<1>2. /\ step[t] = "list" /\ library = "corelib"
      /\ \E label \in {"digests", "Ok"} : ThenStep(t, label)
      /\ UNCHANGED <<library, sessionInput, transcript, report, nonce_input, out_evidence, overlapped>>
  BY Zenon DEF discover_inband_gpus, LibraryCall, vars
<1>3. /\ step' \in [Threads -> Steps] /\ step'[t] \in {"digests", "Ok"}
      /\ \A u \in Threads : u # t => step'[u] = step[u]
  <2>1. {"digests", "Ok"} \subseteq Steps
    BY DEF Steps
  <2>2. QED
    BY <1>2, <2>1, StepIs, Zenon
<1>4. /\ DOMAIN listed' = Threads
      /\ \A u \in Threads : u # t => listed'[u] = listed[u]
      /\ step'[t] = "Ok" => listed'[t] = <<>>
  BY <1>1 DEF discover_inband_gpus, SetListed, CollectionTypeOK, ThenStep
<1>5. CollectionTypeOK'
  BY <1>1, <1>2, <1>3, <1>4, Zenon DEF CollectionTypeOK
<1>6. Moves(t)
  BY <1>1, <1>2, <1>3, <1>4, <1>5, Zenon DEF Moves, Collecting, Ends, Early
<1>7. QED
  BY <1>6, MovesKeep, Zenon

\* get_digests keeps the invariant of the collectors.
LEMMA DigestsKeeps ==
    ASSUME CInv, NEW t \in Threads, get_digests(t) PROVE CollectionInv'
<1>1. CollectionTypeOK /\ SerialInv /\ CorelibInv
  BY Zenon DEF CInv, CollectionInv
<1>2. /\ step[t] = "digests" /\ library = "corelib"
      /\ \E label \in {"certs"} : ThenStep(t, label)
      /\ UNCHANGED <<library, sessionInput, listed, report, nonce_input, out_evidence, overlapped>>
  BY Zenon DEF get_digests, LibraryCall, vars
<1>3. /\ step' \in [Threads -> Steps] /\ step'[t] \in {"certs"}
      /\ \A u \in Threads : u # t => step'[u] = step[u]
  <2>1. {"certs"} \subseteq Steps
    BY DEF Steps
  <2>2. QED
    BY <1>2, <2>1, StepIs, Zenon
<1>4. /\ DOMAIN transcript' = Threads
      /\ \A u \in Threads : u # t => transcript'[u] = transcript[u]
  BY <1>1 DEF get_digests, CollectionTypeOK
<1>5. CollectionTypeOK'
  BY <1>1, <1>2, <1>3, <1>4, Zenon DEF CollectionTypeOK
<1>6. Moves(t)
  BY <1>1, <1>2, <1>3, <1>4, <1>5, Zenon DEF Moves, Collecting, Ends, Early
<1>7. QED
  BY <1>6, MovesKeep, Zenon

\* get_certificate keeps the invariant of the collectors.
LEMMA CertificateKeeps ==
    ASSUME CInv, NEW t \in Threads, get_certificate(t) PROVE CollectionInv'
<1>1. CollectionTypeOK /\ SerialInv /\ CorelibInv
  BY Zenon DEF CInv, CollectionInv
<1>2. /\ step[t] = "certs" /\ library = "corelib"
      /\ \E label \in {"reset"} : ThenStep(t, label)
      /\ UNCHANGED <<library, sessionInput, listed, report, nonce_input, out_evidence, overlapped>>
  BY Zenon DEF get_certificate, LibraryCall, vars
<1>3. /\ step' \in [Threads -> Steps] /\ step'[t] \in {"reset"}
      /\ \A u \in Threads : u # t => step'[u] = step[u]
  <2>1. {"reset"} \subseteq Steps
    BY DEF Steps
  <2>2. QED
    BY <1>2, <2>1, StepIs, Zenon
<1>4. /\ DOMAIN transcript' = Threads
      /\ \A u \in Threads : u # t => transcript'[u] = transcript[u]
  BY <1>1 DEF get_certificate, CollectionTypeOK
<1>5. CollectionTypeOK'
  BY <1>1, <1>2, <1>3, <1>4, Zenon DEF CollectionTypeOK
<1>6. Moves(t)
  BY <1>1, <1>2, <1>3, <1>4, <1>5, Zenon DEF Moves, Collecting, Ends, Early
<1>7. QED
  BY <1>6, MovesKeep, Zenon

\* reset_session keeps the invariant of the collectors.
LEMMA ResetKeeps ==
    ASSUME CInv, NEW t \in Threads, reset_session(t) PROVE CollectionInv'
<1>1. CollectionTypeOK /\ SerialInv /\ CorelibInv
  BY Zenon DEF CInv, CollectionInv
<1>2. /\ step[t] = "reset" /\ library = "corelib"
      /\ \E label \in {"report"} : ThenStep(t, label)
      /\ UNCHANGED <<library, sessionInput, listed, report, nonce_input, out_evidence, overlapped>>
  BY Zenon DEF reset_session, LibraryCall, vars
<1>3. /\ step' \in [Threads -> Steps] /\ step'[t] \in {"report"}
      /\ \A u \in Threads : u # t => step'[u] = step[u]
  <2>1. {"report"} \subseteq Steps
    BY DEF Steps
  <2>2. QED
    BY <1>2, <2>1, StepIs, Zenon
<1>4. /\ DOMAIN transcript' = Threads
      /\ \A u \in Threads : u # t => transcript'[u] = transcript[u]
      /\ transcript'[t] = {}
  BY <1>1 DEF reset_session, CollectionTypeOK
<1>5. CollectionTypeOK'
  BY <1>1, <1>2, <1>3, <1>4, Zenon DEF CollectionTypeOK
<1>6. Moves(t)
  BY <1>1, <1>2, <1>3, <1>4, <1>5, Zenon DEF Moves, Collecting, Ends, Early
<1>7. QED
  BY <1>6, MovesKeep, Zenon

\* get_measurement_transcript keeps the invariant of the collectors.
LEMMA TranscriptKeeps ==
    ASSUME CInv, NEW t \in Threads, get_measurement_transcript(t) PROVE CollectionInv'
<1>1. CollectionTypeOK /\ SerialInv /\ CorelibInv
  BY Zenon DEF CInv, CollectionInv
<1>2. /\ step[t] = "report" /\ library = "corelib"
      /\ \E label \in {"evidence"} : ThenStep(t, label)
      /\ UNCHANGED <<library, sessionInput, listed, nonce_input, out_evidence, overlapped>>
  BY Zenon DEF get_measurement_transcript, LibraryCall, vars
<1>3. /\ step' \in [Threads -> Steps] /\ step'[t] \in {"evidence"}
      /\ \A u \in Threads : u # t => step'[u] = step[u]
  <2>1. {"evidence"} \subseteq Steps
    BY DEF Steps
  <2>2. QED
    BY <1>2, <2>1, StepIs, Zenon
<1>4. /\ DOMAIN transcript' = Threads
      /\ \A u \in Threads : u # t => transcript'[u] = transcript[u]
  BY <1>1 DEF get_measurement_transcript, CollectionTypeOK
<1>5. /\ report' \in [Threads -> Nonces \cup {Empty, Zeros, Mixed}]
      /\ \A u \in Threads : u # t => report'[u] = report[u]
      /\ Fits(report'[t], nonce_input[t])
  BY <1>1, <1>2 DEF get_measurement_transcript, SetReport, CollectionTypeOK, CorelibInv, Collecting, Ends, Fits
<1>6. CollectionTypeOK'
  BY <1>1, <1>2, <1>3, <1>4, <1>5, Zenon DEF CollectionTypeOK
<1>7. Moves(t)
  BY <1>1, <1>2, <1>3, <1>4, <1>5, <1>6, Zenon DEF Moves, Collecting, Ends, Early
<1>8. QED
  BY <1>7, MovesKeep, Zenon

\* AddEvidence keeps the invariant of the collectors.
LEMMA AddEvidenceKeeps ==
    ASSUME CInv, NEW t \in Threads, AddEvidence(t) PROVE CollectionInv'
<1> DEFINE done == Len(out_evidence[t]) + 1
           label == IF done = Len(listed[t]) THEN "Ok" ELSE LoopStep
           new == [device |-> listed[t][done], nonce |-> nonce_input[t], reportNonce |-> report[t]]
<1>1. CollectionTypeOK /\ OutIsSeq /\ Filling /\ CorelibInv /\ SerialInv
  BY Zenon DEF CInv, CollectionInv
<1>2. /\ label \in {"Ok", "report", "input", "digests"}
      /\ label = "report" => library = "nvml"
      /\ label = "Ok" => done = Len(listed[t])
  BY OneOfThree DEF LoopStep
<1>3. /\ step[t] = "evidence" /\ step' = [step EXCEPT ![t] = label]
      /\ out_evidence' = [out_evidence EXCEPT ![t] = Append(@, new)]
      /\ UNCHANGED <<library, sessionInput, transcript, nonce_input, listed, report, overlapped>>
  BY Zenon DEF AddEvidence, ThenStep, vars
<1>4. new.device = listed[t][done] /\ new.nonce = nonce_input[t] /\ new.reportNonce = report[t]
  BY Zenon
<1>5. out_evidence[t] \in Seq(Gathered(t)) /\ done \in Nat
  BY <1>1 DEF OutIsSeq
<1>6. new \in Gathered(t)
  <2>1. /\ nonce_input[t] \in Nonces \cup {Empty, Short}
        /\ report[t] \in Nonces \cup {Empty, Zeros, Mixed}
    BY <1>1, Zenon DEF CollectionTypeOK
  <2>2. QED
    BY <1>5, <2>1 DEF Gathered
<1> HIDE DEF label, new
<1>7. /\ step'[t] = label /\ out_evidence'[t] = Append(out_evidence[t], new)
      /\ \A u \in Threads : u # t => step'[u] = step[u] /\ out_evidence'[u] = out_evidence[u]
  BY <1>1, <1>3 DEF CollectionTypeOK
<1>8. /\ Len(out_evidence'[t]) = done
      /\ \A i \in DOMAIN out_evidence'[t] :
            \/ i \in DOMAIN out_evidence[t] /\ out_evidence'[t][i] = out_evidence[t][i]
            \/ i = done /\ out_evidence'[t][i] = new
  BY <1>5, <1>7
<1> HIDE DEF done
<1>9. CollectionTypeOK'
  <2>1. step' \in [Threads -> Steps]
    BY <1>1, <1>2, <1>3 DEF CollectionTypeOK, Steps
  <2>2. DOMAIN out_evidence' = Threads
    BY <1>1, <1>3 DEF CollectionTypeOK
  <2> QED
    BY <1>1, <1>3, <2>1, <2>2, Zenon DEF CollectionTypeOK
<1>10. OutIsSeq'
  <2> SUFFICES ASSUME NEW u \in Threads PROVE (out_evidence[u] \in Seq(Gathered(u)))'
    BY DEF OutIsSeq
  <2>1. Gathered(u)' = Gathered(u)
    BY <1>3, Zenon DEF Gathered
  <2>2. CASE u = t
    <3>1. out_evidence'[t] \in Seq(Gathered(t))
      BY <1>5, <1>6, <1>7
    <3>2. QED
      BY <2>1, <2>2, <3>1, Zenon
  <2>3. CASE u # t
    BY <1>1, <1>7, <2>1, <2>3, Zenon DEF OutIsSeq
  <2>4. QED
    BY <2>2, <2>3
<1>11. Filling'
  <2> SUFFICES ASSUME NEW u \in Threads
               PROVE  /\ step'[u] \in Early => out_evidence'[u] = <<>>
                      /\ \A i \in DOMAIN out_evidence'[u] : out_evidence'[u][i].device = listed'[u][i]
                      /\ step'[u] = "Ok" => Len(out_evidence'[u]) = Len(listed'[u])
    BY DEF Filling
  <2>1. CASE u # t
    <3>1. step'[u] = step[u] /\ out_evidence'[u] = out_evidence[u] /\ listed' = listed
      BY <1>3, <1>7, <2>1, Zenon
    <3>2. QED
      BY <1>1, <3>1 DEF Filling
  <2>2. CASE u = t
    <3>1. step'[t] \notin Early
      BY <1>2, <1>7 DEF Early
    <3>2. \A i \in DOMAIN out_evidence'[t] : out_evidence'[t][i].device = listed'[t][i]
      BY <1>1, <1>3, <1>4, <1>8, Zenon DEF Filling
    <3>3. step'[t] = "Ok" => Len(out_evidence'[t]) = Len(listed'[t])
      BY <1>2, <1>3, <1>7, <1>8, Zenon
    <3> QED
      BY <2>2, <3>1, <3>2, <3>3, Zenon
  <2>3. QED
    BY <2>1, <2>2
<1>12. CorelibInv'
  BY <1>1, <1>2, <1>3, <1>7 DEF CorelibInv, Collecting, Ends
<1>13. SerialInv'
  <2> SUFFICES ASSUME ~overlapped' PROVE SerialInv'
    BY Zenon DEF SerialInv
  <2>1. Collecting(t) /\ ~overlapped /\ step'[t] # "evidence" /\ step'[t] # "none"
    BY <1>2, <1>3, <1>7 DEF Collecting, Ends
  <2>2. \A u, w \in Threads : Collecting(u)' /\ Collecting(w)' => u = w
    BY <1>1, <1>7, <2>1, Zenon DEF SerialInv, Collecting
  <2>3. \A u \in Threads : library' = "nscq" /\ step'[u] = "report" =>
            sessionInput' = nonce_input'[u] /\ nonce_input'[u] \in Nonces
    BY <1>1, <1>2, <1>3, <1>7, <2>1 DEF SerialInv
  <2>4. \A u \in Threads : step'[u] = "evidence" => Fits(report[u], nonce_input[u])'
    BY <1>1, <1>3, <1>7, <2>1, Zenon DEF SerialInv, Fits
  <2>5. (\A u \in Threads : \A i \in DOMAIN out_evidence[u] :
            Fits(out_evidence[u][i].reportNonce, out_evidence[u][i].nonce))'
    <3> SUFFICES ASSUME NEW u \in Threads, NEW i \in DOMAIN out_evidence'[u]
                 PROVE  Fits(out_evidence[u][i].reportNonce, out_evidence[u][i].nonce)'
      BY Zenon
    <3>1. /\ Fits(report[t], nonce_input[t])
          /\ i \in DOMAIN out_evidence[u] =>
                Fits(out_evidence[u][i].reportNonce, out_evidence[u][i].nonce)
      BY <1>1, <1>3, <2>1, Zenon DEF SerialInv
    <3>2. \/ i \in DOMAIN out_evidence[u] /\ out_evidence'[u][i] = out_evidence[u][i]
          \/ out_evidence'[u][i] = new
      BY <1>7, <1>8, Zenon
    <3>3. CASE out_evidence'[u][i] = new
      BY <1>3, <1>4, <3>1, <3>3, Zenon DEF Fits
    <3>4. CASE i \in DOMAIN out_evidence[u] /\ out_evidence'[u][i] = out_evidence[u][i]
      BY <1>3, <3>1, <3>4, Zenon DEF Fits
    <3>5. QED
      BY <3>2, <3>3, <3>4, Zenon
  <2> QED
    BY <2>2, <2>3, <2>4, <2>5, Zenon DEF SerialInv
<1>14. QED
  BY <1>9, <1>10, <1>11, <1>12, <1>13, Zenon DEF CollectionInv

\* CallFails keeps the invariant of the collectors.
LEMMA FailureKeeps ==
    ASSUME CInv, NEW t \in Threads, CallFails(t) PROVE CollectionInv'
<1>1. CollectionTypeOK /\ SerialInv /\ CorelibInv
  BY Zenon DEF CInv, CollectionInv
<1>2. /\ Collecting(t)
      /\ \E label \in {"Error"} : ThenStep(t, label)
      /\ UNCHANGED <<library, sessionInput, listed, report, nonce_input, out_evidence, overlapped>>
  BY Zenon DEF CallFails, vars
<1>3. /\ step' \in [Threads -> Steps] /\ step'[t] \in {"Error"}
      /\ \A u \in Threads : u # t => step'[u] = step[u]
  <2>1. {"Error"} \subseteq Steps
    BY DEF Steps
  <2>2. QED
    BY <1>2, <2>1, StepIs, Zenon
<1>4. /\ DOMAIN transcript' = Threads
      /\ \A u \in Threads : u # t => transcript'[u] = transcript[u]
  BY <1>1 DEF CallFails, CollectionTypeOK
<1>5. CollectionTypeOK'
  BY <1>1, <1>2, <1>3, <1>4, Zenon DEF CollectionTypeOK
<1>6. Moves(t)
  BY <1>1, <1>2, <1>3, <1>4, <1>5, Zenon DEF Moves, Collecting, Ends, Early
<1>7. QED
  BY <1>6, MovesKeep, Zenon

\* Return keeps the invariant of the collectors.
LEMMA ReturnKeeps ==
    ASSUME CInv, NEW t \in Threads, Return(t) PROVE CollectionInv'
<1>1. CollectionTypeOK /\ OutIsSeq /\ Filling /\ CorelibInv /\ SerialInv
  BY Zenon DEF CInv, CollectionInv
<1>2. /\ step' = [step EXCEPT ![t] = "none"] /\ nonce_input' = [nonce_input EXCEPT ![t] = Empty]
      /\ listed' = [listed EXCEPT ![t] = <<>>] /\ report' = [report EXCEPT ![t] = Empty]
      /\ out_evidence' = [out_evidence EXCEPT ![t] = <<>>]
      /\ UNCHANGED <<library, sessionInput, transcript, overlapped>>
  BY Zenon DEF Return, Leave, ThenStep, SetListed, SetReport
<1>3. step' \in [Threads -> Steps] /\ nonce_input' \in [Threads -> Nonces \cup {Empty, Short}]
  BY <1>1, <1>2 DEF CollectionTypeOK, Steps
<1>4. /\ report' \in [Threads -> Nonces \cup {Empty, Zeros, Mixed}]
      /\ DOMAIN listed' = Threads /\ DOMAIN out_evidence' = Threads
  BY <1>1, <1>2 DEF CollectionTypeOK
<1>5. step'[t] = "none" /\ out_evidence'[t] = <<>>
  BY <1>1, <1>2 DEF CollectionTypeOK
<1>6. ASSUME NEW u \in Threads, u # t
      PROVE  /\ step'[u] = step[u] /\ nonce_input'[u] = nonce_input[u] /\ listed'[u] = listed[u]
             /\ report'[u] = report[u] /\ out_evidence'[u] = out_evidence[u]
  BY <1>1, <1>2, <1>6 DEF CollectionTypeOK
<1>7. CollectionTypeOK'
  BY <1>1, <1>2, <1>3, <1>4, Zenon DEF CollectionTypeOK
<1>8. OutIsSeq'
  <2> SUFFICES ASSUME NEW u \in Threads PROVE (out_evidence[u] \in Seq(Gathered(u)))'
    BY Zenon DEF OutIsSeq
  <2>1. CASE u = t
    <3>1. out_evidence'[u] = <<>>
      BY <1>5, <2>1, Zenon
    <3>2. QED
      BY <3>1
  <2>2. CASE u # t
    <3>1. listed'[u] = listed[u] /\ out_evidence'[u] = out_evidence[u]
      BY <1>6, <2>2, Zenon
    <3>2. Gathered(u)' = Gathered(u)
      BY <3>1, Zenon DEF Gathered
    <3>3. QED
      BY <1>1, <3>1, <3>2, Zenon DEF OutIsSeq
  <2>3. QED
    BY <2>1, <2>2
<1>9. Filling'
  <2> SUFFICES ASSUME NEW u \in Threads
               PROVE  /\ step'[u] \in Early => out_evidence'[u] = <<>>
                      /\ \A i \in DOMAIN out_evidence'[u] : out_evidence'[u][i].device = listed'[u][i]
                      /\ step'[u] = "Ok" => Len(out_evidence'[u]) = Len(listed'[u])
    BY Zenon DEF Filling
  <2>1. CASE u = t
    BY <1>5, <2>1
  <2>2. CASE u # t
    <3>1. step'[u] = step[u] /\ listed'[u] = listed[u] /\ out_evidence'[u] = out_evidence[u]
      BY <1>6, <2>2, Zenon
    <3>2. QED
      BY <1>1, <3>1, Zenon DEF Filling
  <2>3. QED
    BY <2>1, <2>2
<1>10. ~Collecting(t)' /\ step'[t] # "report" /\ step'[t] # "evidence"
  BY <1>5 DEF Collecting
<1>11. CorelibInv'
  BY <1>1, <1>2, <1>6, <1>10, Zenon DEF CorelibInv, Collecting
<1>12. SerialInv'
  <2> SUFFICES ASSUME ~overlapped PROVE SerialInv'
    BY <1>2, Zenon DEF SerialInv
  <2>1. \A u, w \in Threads : Collecting(u)' /\ Collecting(w)' => u = w
    BY <1>1, <1>6, <1>10, Zenon DEF SerialInv, Collecting
  <2>2. \A u \in Threads : library' = "nscq" /\ step'[u] = "report" =>
            sessionInput' = nonce_input'[u] /\ nonce_input'[u] \in Nonces
    BY <1>1, <1>2, <1>6, <1>10, Zenon DEF SerialInv
  <2>3. \A u \in Threads : step'[u] = "evidence" => Fits(report[u], nonce_input[u])'
    BY <1>1, <1>2, <1>6, <1>10, Zenon DEF SerialInv, Fits
  <2>4. \A u \in Threads : (\A i \in DOMAIN out_evidence[u] :
            Fits(out_evidence[u][i].reportNonce, out_evidence[u][i].nonce))'
    <3> TAKE u \in Threads
    <3>1. CASE u = t
      BY <1>5, <3>1
    <3>2. CASE u # t
      <4>1. out_evidence'[u] = out_evidence[u]
        BY <1>6, <3>2, Zenon
      <4>2. \A i \in DOMAIN out_evidence[u] :
                Fits(out_evidence[u][i].reportNonce, out_evidence[u][i].nonce)
        BY <1>1, Zenon DEF SerialInv
      <4>3. QED
        BY <1>2, <4>1, <4>2 DEF Fits
    <3>3. QED
      BY <3>1, <3>2, Zenon
  <2>5. QED
    BY <2>1, <2>2, <2>3, <2>4, Zenon DEF SerialInv
<1>13. QED
  BY <1>7, <1>8, <1>9, <1>11, <1>12, Zenon DEF CollectionInv

\* CInv is inductive.
LEMMA CInvNext == CInv /\ [CollectorsNext]_allVars => CInv'
<1> SUFFICES ASSUME CInv, [CollectorsNext]_allVars PROVE CInv'
  OBVIOUS
<1>1. DInv'
  BY LibrarySteps, DInvNext DEF CInv
<1>2. ASSUME UNCHANGED collection, library' = library PROVE CollectionInv'
  <2>1. CollectionTypeOK /\ OutIsSeq /\ Filling /\ CorelibInv /\ SerialInv
    BY Zenon DEF CInv, CollectionInv
  <2>2. UNCHANGED <<library, sessionInput, transcript, step, nonce_input, listed, report,
                    out_evidence, overlapped>>
    BY <1>2, Zenon DEF collection
  <2>3. CollectionTypeOK'
    BY <2>1, <2>2, Zenon DEF CollectionTypeOK
  <2>4. OutIsSeq'
    BY <2>1, <2>2, Zenon DEF OutIsSeq, Gathered
  <2>5. Filling'
    BY <2>1, <2>2, Zenon DEF Filling
  <2>6. CorelibInv'
    BY <2>1, <2>2, Zenon DEF CorelibInv, Collecting
  <2>7. SerialInv'
    BY <2>1, <2>2, Zenon DEF SerialInv, Collecting, Fits
  <2>8. QED
    BY <2>3, <2>4, <2>5, <2>6, <2>7, Zenon DEF CollectionInv
<1>3. ASSUME NEW t \in Threads, CollectStep(t) PROVE CollectionInv'
  BY <1>3, StartKeeps, CheckModeKeeps, CountKeeps, NvmlReportKeeps, SwitchListKeeps,
     ArchitectureKeeps, SetInputKeeps, ObserveKeeps, ManagerKeeps, DiscoverKeeps, DigestsKeeps,
     CertificateKeeps, ResetKeeps, TranscriptKeeps, AddEvidenceKeeps, FailureKeeps,
     ZenonT(30) DEF CollectStep
<1>4. library' = library
  BY LibrarySteps, ZenonT(30)
     DEF Next, vars, Call, InitStep, CheckFlag, EnterOnce, PassOnce, Publish, Dlopen,
     LoadSymbols, Start, Leave, CallShutdown, ShutdownStep, CheckShutdown, StopDriver,
     CloseLibrary, ClearFlag, DeleteOptions, CallCrashes, ShutdownCrashes, Crash
<1>5. CollectionInv'
  BY <1>2, <1>3, <1>4, ReturnKeeps, Zenon DEF CollectorsNext, Crashed, LibraryStep, allVars
<1>6. QED
  BY <1>1, <1>5 DEF CInv

-----------------------------------------------------------------------------
\* CInv in every state of every behaviour.
LEMMA CInvAlways == CollectorsSpec => []CInv
BY CInvInit, CInvNext, PTL DEF CollectorsSpec

\* The library, used by the collectors, behaves as it does by itself: whatever
\* is proved of it above holds here too.
THEOREM CollectorsUseTheLibrary == CollectorsSpec => Spec
<1>1. CollectorsInit => Init
  BY DEF CollectorsInit
<1>2. QED
  BY <1>1, LibrarySteps, PTL DEF CollectorsSpec, Spec

\* StartedOnceAndOwned of the collectors: NVML and NSCQ are started at most once,
\* however many threads collect, fail, return and shut down.
THEOREM DriverStartedOnceByCollectors == CollectorsSpec => []StartedOnceAndOwned
BY CollectorsUseTheLibrary, DriverStartedOnce, PTL

\* CollectsFromRunningLibrary of the collectors: until a shutdown meets a call,
\* a thread in collect_evidence_X has a loaded library and a started driver, and
\* no call crashes.
THEOREM CollectorsHaveTheLibrary == CollectorsSpec => []CollectsFromRunningLibrary
BY CollectorsUseTheLibrary, LibraryAlwaysRunning, PTL

\* OkIsComplete for any number of threads and devices: a collection that
\* returns Ok has one piece of evidence for each device on the list, in order.
THEOREM OkAlwaysComplete == CollectorsSpec => []OkIsComplete
<1>1. CInv => OkIsComplete
  <2> SUFFICES ASSUME CInv, NEW t \in Threads, step[t] = "Ok"
               PROVE  /\ Len(out_evidence[t]) = Len(listed[t])
                      /\ \A i \in 1..Len(listed[t]) : out_evidence[t][i].device = listed[t][i]
    BY Zenon DEF OkIsComplete
  <2>1. OutIsSeq /\ Filling
    BY Zenon DEF CInv, CollectionInv
  <2>2. DOMAIN out_evidence[t] = 1..Len(out_evidence[t])
    <3>1. out_evidence[t] \in Seq(Gathered(t))
      BY <2>1, Zenon DEF OutIsSeq
    <3>2. QED
      BY <3>1
  <2>3. /\ \A i \in DOMAIN out_evidence[t] : out_evidence[t][i].device = listed[t][i]
        /\ Len(out_evidence[t]) = Len(listed[t])
    BY <2>1, Zenon DEF Filling
  <2>4. QED
    BY <2>2, <2>3, Zenon
<1>2. QED
  BY <1>1, CInvAlways, PTL

\* SerialNonceWasUsed for any number of threads, devices and nonces: the report
\* in a piece of evidence answers the nonce of the evidence, until two
\* collections overlap.
THEOREM SerialNonceAlwaysUsed == CollectorsSpec => []SerialNonceWasUsed
<1>1. CInv => SerialNonceWasUsed
  BY DEF CInv, CollectionInv, SerialInv, SerialNonceWasUsed, Fits
<1>2. QED
  BY <1>1, CInvAlways, PTL

=============================================================================
