---------------------------- MODULE DriverLibrary ---------------------------
(***************************************************************************)
(* How the SDK loads NVML (nvml_client.cpp), NSCQ (nscq_client.cpp) and     *)
(* Corelib (corelib_client.cpp): process-wide state that every evidence    *)
(* collection initialises on demand through std::call_once, and that       *)
(* nvat_sdk_shutdown (init.cpp) tears down.  The three follow one pattern, *)
(* but Corelib needs no start, and is not shut down.                       *)
(*                                                                         *)
(* The flag g_initialized is a plain bool, read without synchronisation;   *)
(* a read is modelled as one step that sees the flag as it is.  (A reader  *)
(* that sees an older value is a reader that read earlier.)                *)
(*                                                                         *)
(* Nothing keeps a shutdown from running beside a collection or beside     *)
(* another shutdown.  Whoever then calls through the function table finds  *)
(* it empty, or the library unmapped under the call: the process crashes.  *)
(***************************************************************************)
EXTENDS Integers, FiniteSets

CONSTANT Threads

VARIABLES
    library,            \* which of the three this is about
    g_sdkOptions,       \* not null: the SDK is initialised and not shut down
    g_initialized,
    once,               \* g_initialized_flag, the std::once_flag
    library_handle,     \* the dlopen handle is not null
    g_funcs,            \* the function table: null, loaded, or left dangling
    driver,             \* the driver library's own state (external)
    starts,             \* how often the driver was started (history)
    quiet,              \* no shutdown has run beside anything else (history)
    crashed,            \* the process has died in a call
    pc

vars == <<library, g_sdkOptions, g_initialized, once, library_handle, g_funcs, driver, starts, quiet,
          crashed, pc>>

TypeOK ==
    /\ library \in {"nvml", "nscq", "corelib"} /\ g_sdkOptions \in BOOLEAN
    /\ g_initialized \in BOOLEAN /\ library_handle \in BOOLEAN
    /\ once \in {"fresh", "running", "done"}
    /\ g_funcs \in {"null", "loaded", "dangling"}
    /\ driver \in {"down", "up"} /\ starts \in Nat /\ quiet \in BOOLEAN /\ crashed \in BOOLEAN
    /\ pc \in [Threads -> {"idle", "init", "once", "dlopen", "symbols", "start", "publish",
                           "collect", "failed", "shutdown", "stop", "close", "reset", "options"}]

Init ==
    /\ library \in {"nvml", "nscq", "corelib"}
    /\ g_sdkOptions = TRUE
    /\ g_initialized = FALSE /\ library_handle = FALSE
    /\ once = "fresh" /\ g_funcs = "null"
    /\ driver = "down" /\ starts = 0 /\ quiet = TRUE /\ crashed = FALSE
    /\ pc = [t \in Threads |-> "idle"]

At(t, label) == pc[t] = label
Running == g_funcs = "loaded" /\ library_handle /\ (library # "corelib" => driver = "up")

Goto(t, label) == pc' = [pc EXCEPT ![t] = label]

-----------------------------------------------------------------------------
\* get_evidence calls init_X first.
Call(t) ==
    /\ At(t, "idle") /\ Goto(t, "init")
    /\ quiet' = (quiet /\ \A u \in Threads : pc[u] \notin {"shutdown", "stop", "close", "reset", "options"})
    /\ UNCHANGED <<library, g_sdkOptions, g_initialized, once, library_handle, g_funcs, driver, starts, crashed>>

\* If already initialized, return Ok.
CheckFlag(t) ==
    /\ At(t, "init")
    /\ Goto(t, IF g_initialized THEN "collect" ELSE "once")
    /\ UNCHANGED <<library, g_sdkOptions, g_initialized, once, library_handle, g_funcs, driver, starts, quiet, crashed>>

\* Variation: no once_flag, the plain flag alone.
EnterUnguarded(t) ==
    /\ At(t, "once")
    /\ once' = "running"
    /\ Goto(t, "dlopen")
    /\ UNCHANGED <<library, g_sdkOptions, g_initialized, library_handle, g_funcs, driver, starts, quiet, crashed>>

\* std::call_once: the first thread runs the lambda, others wait for it, and
\* whoever comes later or waited returns the preset init_result.
EnterOnce(t) ==
    /\ At(t, "once") /\ once = "fresh"
    /\ once' = "running"
    /\ Goto(t, "dlopen")
    /\ UNCHANGED <<library, g_sdkOptions, g_initialized, library_handle, g_funcs, driver, starts, quiet, crashed>>

PassOnce(t) ==
    /\ At(t, "once") /\ once = "done"
    /\ Goto(t, "failed")
    /\ UNCHANGED <<library, g_sdkOptions, g_initialized, once, library_handle, g_funcs, driver, starts, quiet, crashed>>

LeaveOnce(t, label) == once' = "done" /\ Goto(t, label)

Dlopen(t, ok) ==
    /\ At(t, "dlopen")
    /\ library_handle' = ok
    /\ IF ok THEN Goto(t, "symbols") /\ UNCHANGED once ELSE LeaveOnce(t, "failed")
    /\ UNCHANGED <<library, g_sdkOptions, g_initialized, g_funcs, driver, starts, quiet, crashed>>

AfterSymbols == IF library = "corelib" THEN "publish" ELSE "start"

\* Variation: the flag is set before the driver is started.
LoadSymbolsPublishes(t, ok) ==
    /\ At(t, "symbols")
    /\ IF ok THEN /\ g_funcs' = "loaded" /\ g_initialized' = TRUE /\ Goto(t, AfterSymbols)
                  /\ UNCHANGED <<once, library_handle>>
             ELSE /\ g_funcs' = "dangling" /\ library_handle' = FALSE
                  /\ LeaveOnce(t, "failed") /\ UNCHANGED g_initialized
    /\ UNCHANGED <<library, g_sdkOptions, driver, starts, quiet, crashed>>

\* load_all_symbols; on failure the library is closed, and what was loaded
\* into the function table stays there.
LoadSymbols(t, ok) ==
    /\ At(t, "symbols")
    /\ IF ok THEN /\ g_funcs' = "loaded" /\ Goto(t, AfterSymbols)
                  /\ UNCHANGED <<once, library_handle>>
             ELSE /\ g_funcs' = "dangling" /\ library_handle' = FALSE
                  /\ LeaveOnce(t, "failed")
    /\ UNCHANGED <<library, g_sdkOptions, g_initialized, driver, starts, quiet, crashed>>

\* nvmlInit, nscq_session_create.
Start(t, ok) ==
    /\ At(t, "start")
    /\ IF ok THEN /\ driver' = "up" /\ starts' = starts + 1
                  /\ Goto(t, "publish")
                  /\ UNCHANGED <<once, g_funcs, library_handle>>
             ELSE /\ g_funcs' = "dangling" /\ library_handle' = FALSE
                  /\ LeaveOnce(t, "failed")
                  /\ UNCHANGED <<driver, starts>>
    /\ UNCHANGED <<library, g_sdkOptions, g_initialized, quiet, crashed>>

Publish(t) ==
    /\ At(t, "publish")
    /\ g_initialized' = TRUE
    /\ LeaveOnce(t, "collect")
    /\ UNCHANGED <<library, g_sdkOptions, library_handle, g_funcs, driver, starts, quiet, crashed>>

\* Collection ends, and a failed one is reported.
Leave(t) ==
    /\ pc[t] \in {"collect", "failed"}
    /\ Goto(t, "idle")
    /\ UNCHANGED <<library, g_sdkOptions, g_initialized, once, library_handle, g_funcs, driver, starts, quiet, crashed>>

-----------------------------------------------------------------------------
\* nvat_sdk_shutdown, which does nothing the second time, reaches
\* handle_shutdown_X and shutdown_X, and deletes the options in the end.
CallShutdown(t) ==
    /\ At(t, "idle") /\ Goto(t, "shutdown")
    /\ quiet' = (quiet /\ \A u \in Threads : At(u, "idle"))
    /\ UNCHANGED <<library, g_sdkOptions, g_initialized, once, library_handle, g_funcs, driver, starts, crashed>>

\* The flag is cleared also when there is no handle any more.
CheckShutdown(t) ==
    /\ At(t, "shutdown")
    /\ Goto(t, IF ~ g_sdkOptions THEN "idle"
               ELSE IF library = "corelib" \/ ~ g_initialized THEN "options"
               ELSE IF library_handle THEN "stop" ELSE "reset")
    /\ UNCHANGED <<library, g_sdkOptions, g_initialized, once, library_handle, g_funcs, driver, starts, quiet, crashed>>

\* An error of the driver's shutdown is logged and ignored.
StopDriver(t) ==
    /\ At(t, "stop") /\ g_funcs = "loaded" /\ Goto(t, "close")
    /\ driver' = "down"
    /\ UNCHANGED <<library, g_sdkOptions, g_initialized, once, library_handle, g_funcs, starts, quiet, crashed>>

CloseLibrary(t) ==
    /\ At(t, "close") /\ Goto(t, "reset")
    /\ g_funcs' = "null" /\ library_handle' = FALSE
    /\ UNCHANGED <<library, g_sdkOptions, g_initialized, once, driver, starts, quiet, crashed>>

ClearFlag(t) ==
    /\ At(t, "reset") /\ Goto(t, "options")
    /\ g_initialized' = FALSE
    /\ UNCHANGED <<library, g_sdkOptions, once, library_handle, g_funcs, driver, starts, quiet, crashed>>

DeleteOptions(t) ==
    /\ At(t, "options") /\ Goto(t, "idle")
    /\ g_sdkOptions' = FALSE
    /\ UNCHANGED <<library, g_initialized, once, library_handle, g_funcs, driver, starts, quiet, crashed>>

-----------------------------------------------------------------------------
Crash ==
    /\ crashed' = TRUE
    /\ UNCHANGED <<library, g_sdkOptions, g_initialized, once, library_handle, g_funcs, driver, starts, quiet, pc>>

\* A collection calls into a library that another thread is shutting down.
\* Where the code looks at the session and the table first (NSCQ), the
\* shutdown comes between the look and the call.
CallCrashes(t) == At(t, "collect") /\ ~Running /\ Crash

\* So does the second of two shutdowns that both saw the flag.
ShutdownCrashes(t) ==
    /\ (At(t, "stop") /\ ~Running) \/ (At(t, "close") /\ ~library_handle)
    /\ Crash

InitStep(t) ==
    \/ CheckFlag(t) \/ EnterOnce(t) \/ PassOnce(t) \/ Publish(t)
    \/ \E ok \in BOOLEAN : Dlopen(t, ok) \/ LoadSymbols(t, ok) \/ Start(t, ok)

ShutdownStep(t) ==
    \/ CheckShutdown(t) \/ StopDriver(t) \/ CloseLibrary(t) \/ ClearFlag(t) \/ DeleteOptions(t)
    \/ ShutdownCrashes(t)

Next ==
    /\ ~crashed
    /\ \E t \in Threads :
          \/ Call(t) \/ InitStep(t) \/ CallCrashes(t) \/ Leave(t)
          \/ CallShutdown(t) \/ ShutdownStep(t)

Spec == Init /\ [][Next]_vars

-----------------------------------------------------------------------------
\* A thread that was told Ok collects through a loaded function table of a
\* library that is open and started, whichever thread loaded it, and neither
\* a collection nor a shutdown crashes, as long as the application shuts down
\* only while nothing else runs (the TODO in shutdown, init.cpp).
CollectsFromRunningLibrary ==
    quiet => ~crashed /\ \A t \in Threads : At(t, "collect") => Running

\* The driver is started at most once in the life of the process, also after
\* shutdowns, and is left running only behind a handle that can stop it.
StartedOnceAndOwned ==
    /\ starts <= 1
    /\ driver = "up" => library_handle

=============================================================================
