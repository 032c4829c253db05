----------------------------- MODULE HttpClient -----------------------------
(***************************************************************************)
(* NvHttpClient (nv_http.cpp): one call of do_request_as_string, with the  *)
(* options it was created from.  A call makes several attempts on one curl *)
(* handle; every attempt may fail in libcurl (after part of a body arrived *)
(* or not) or yield a status and a body.  The caller sees three things:    *)
(* the Error, out_status and out_response, and they may stem from          *)
(* different attempts.                                                     *)
(*                                                                         *)
(* libcurl, the server and the file system are external.  Bodies are       *)
(* abstracted to the sequence of attempts whose bytes they consist of.     *)
(***************************************************************************)
EXTENDS Integers, Sequences

CONSTANTS
    Retries,            \* values an application passes to set_max_retry_count
    Backoffs,           \* ... to set_base_backoff_ms and set_max_backoff_ms
    Paths,              \* files that may be a CA bundle
    ProbePaths,         \* libcurl's compiled default and CA_BUNDLE_PROBE_PATHS
    NoPath              \* the empty path

ASSUME HttpClientConstants ==
    /\ Retries \subseteq Int /\ Backoffs \subseteq Int
    /\ ProbePaths \in Seq(Paths) /\ NoPath \notin Paths

VARIABLES
    windows,            \* the library was built for Windows
    readable,           \* the files that are readable regular files
    environment,        \* NVAT_CA_BUNDLE, CURL_CA_BUNDLE, SSL_CERT_FILE
    explicit,           \* the path last given to set_ca_bundle_path (history)
    m_options,          \* HttpOptions
    hasHeaders,         \* the request has headers of its own
    m_service_key,      \* a service key is set
    authorization,      \* the request carries the Authorization header
    phase, cur_try, backoff_ms, last_error,
    curl_code,          \* of the last attempt: "OK", one that is retried, or another
    out_status, out_response

settings == <<windows, readable, environment, explicit, m_options, hasHeaders, m_service_key>>
httpVars == <<settings, authorization, phase, cur_try, backoff_ms, last_error, curl_code,
              out_status, out_response>>

\* One status of each kind the code tells apart, and the initial 0.
Statuses == {"2xx", "retryable", "other"}

Clamp(n) == IF n > 0 THEN n ELSE 0

HttpOptions == [max_retry_count : {Clamp(n) : n \in Retries},
                base_backoff_ms : {Clamp(n) : n \in Backoffs},
                max_backoff_ms : {Clamp(n) : n \in Backoffs},
                ca_bundle_path : Paths \cup {NoPath},
                ca_bundle_path_error : {"Ok", "InternalError"}]

-----------------------------------------------------------------------------
\* use_authoritative_ca_bundle_path: a configured path is used or refused.
Authoritative(path) ==
    [path |-> path, error |-> IF path \in readable THEN "Ok" ELSE "InternalError"]

\* The first element of s that is in S, when there is one.
First(s, S) == s[CHOOSE i \in DOMAIN s : s[i] \in S /\ \A j \in 1..(i - 1) : s[j] \notin S]
Some(s, S) == \E i \in DOMAIN s : s[i] \in S

\* The first readable file of the compiled default and the probe paths.
FirstReadable ==
    IF Some(ProbePaths, readable) THEN [path |-> First(ProbePaths, readable), error |-> "Ok"]
                                  ELSE [path |-> NoPath, error |-> "InternalError"]

\* Variation: a configured file that is not readable is passed over.
ResolveFallsThrough(path) ==
    IF path \in readable THEN Authoritative(path)
    ELSE IF Some(environment, readable) THEN Authoritative(First(environment, readable))
    ELSE FirstReadable

\* resolve_ca_bundle_path: the explicit path, then the environment, then the
\* defaults.
Resolve(path) ==
    IF path # NoPath THEN Authoritative(path)
    ELSE IF Some(environment, Paths) THEN Authoritative(First(environment, Paths))
    ELSE FirstReadable

WithBundle(options, bundle) ==
    [options EXCEPT !.ca_bundle_path = bundle.path, !.ca_bundle_path_error = bundle.error]

-----------------------------------------------------------------------------
HttpTypeOK ==
    /\ windows \in BOOLEAN /\ readable \subseteq Paths
    /\ environment \in [1..3 -> Paths \cup {NoPath}]
    /\ explicit \in Paths \cup {NoPath}
    /\ m_options \in HttpOptions
    /\ hasHeaders \in BOOLEAN /\ m_service_key \in BOOLEAN /\ authorization \in BOOLEAN
    /\ phase \in {"configure", "start", "attempt", "done"}
    /\ cur_try \in Nat /\ backoff_ms \in Nat
    /\ last_error \in {"Ok", "InternalError"}
    /\ curl_code \in {"none", "OK", "retryable", "fatal"}
    /\ out_status \in Statuses \cup {"0"}
    /\ out_response \in Seq(Nat)

\* HttpOptions and the setters the application calls before the client is
\* created from a copy; the bundle is resolved when the options are built.
HttpInit ==
    /\ windows \in BOOLEAN /\ readable \in SUBSET Paths
    /\ environment \in [1..3 -> Paths \cup {NoPath}]
    /\ explicit = NoPath
    /\ \E retries \in Retries, base \in Backoffs, max \in Backoffs :
          m_options = [max_retry_count |-> Clamp(retries), base_backoff_ms |-> Clamp(base),
                       max_backoff_ms |-> Clamp(max),
                       ca_bundle_path |-> Resolve(NoPath).path,
                       ca_bundle_path_error |-> Resolve(NoPath).error]
    /\ hasHeaders \in BOOLEAN /\ m_service_key \in BOOLEAN
    /\ authorization = FALSE
    /\ phase = "configure"
    /\ cur_try = 0 /\ backoff_ms = 0
    /\ last_error = "InternalError" /\ curl_code = "none"
    /\ out_status = "0" /\ out_response \in {<<>>, <<0>>}

\* set_ca_bundle_path: resolves again, and keeps the error it returns.
set_ca_bundle_path(path) ==
    /\ phase = "configure"
    /\ explicit' = path
    /\ m_options' = WithBundle(m_options, Resolve(path))
    /\ UNCHANGED <<windows, readable, environment, hasHeaders, m_service_key, authorization,
                   phase, cur_try, backoff_ms, last_error, curl_code, out_status, out_response>>

\* A bundle file is installed or goes away after it was resolved.
FilesChange(path) ==
    /\ phase = "configure"
    /\ readable' = IF path \in readable THEN readable \ {path} ELSE readable \cup {path}
    /\ UNCHANGED <<windows, environment, explicit, m_options, hasHeaders, m_service_key, authorization,
                   phase, cur_try, backoff_ms, last_error, curl_code, out_status, out_response>>

\* The caller makes the request; out_status is 0, and the string for the body
\* may hold the bytes of an earlier use.
Begin ==
    /\ phase = "configure"
    /\ phase' = "start"
    /\ UNCHANGED <<settings, authorization, cur_try, backoff_ms, last_error, curl_code,
                   out_status, out_response>>

HttpReturn(error) == phase' = "done" /\ last_error' = error

HasBundle == m_options.ca_bundle_path_error = "Ok" /\ m_options.ca_bundle_path # NoPath

\* Without a usable bundle nothing is sent.  On Windows the client reads the
\* bundle itself and hands libcurl its bytes: a file that cannot be read, is
\* empty or is refused by libcurl is no use either.
RefuseWithoutBundle ==
    /\ phase = "start"
    /\ ~HasBundle \/ windows
    /\ out_response' = <<>>
    /\ HttpReturn("InternalError")
    /\ UNCHANGED <<settings, authorization, cur_try, backoff_ms, curl_code, out_status>>

\* The curl handle is set up.  The header list is handed to libcurl only if
\* the request has headers; the Authorization header is appended to the list
\* afterwards.
SetUp ==
    /\ phase = "start"
    /\ HasBundle /\ (windows => m_options.ca_bundle_path \in readable)
    /\ out_response' = <<>>
    /\ authorization' = (hasHeaders /\ m_service_key)
    /\ backoff_ms' = m_options.base_backoff_ms
    /\ phase' = "attempt"
    /\ UNCHANGED <<settings, cur_try, last_error, curl_code, out_status>>

-----------------------------------------------------------------------------
SmallerOf(a, b) == IF a < b THEN a ELSE b

\* Before a retry the body is cleared, the thread sleeps for a random time up
\* to backoff_ms, and only then the backoff is doubled and capped.
Backoff ==
    backoff_ms' = IF cur_try = 0 THEN backoff_ms
                  ELSE SmallerOf(2 * backoff_ms, m_options.max_backoff_ms)

\* Variation: the body is not cleared before a retry.
BodyIsKept == out_response

Body == IF cur_try = 0 THEN out_response ELSE <<>>

\* Variation: one retry too few.
AgainTooFew(error) ==
    IF cur_try' < m_options.max_retry_count
    THEN phase' = "attempt" /\ last_error' = error
    ELSE HttpReturn(error)

\* What follows an attempt that may be retried: the loop condition.
Again(error) ==
    IF cur_try' <= m_options.max_retry_count
    THEN phase' = "attempt" /\ last_error' = error
    ELSE HttpReturn(error)

\* Could not connect, could not resolve, or timed out, with or without some
\* of the body: out_status keeps what an earlier attempt left there.
RetryableError ==
    /\ phase = "attempt"
    /\ Backoff
    /\ cur_try' = cur_try + 1
    /\ \E bytes \in {<<>>, <<cur_try + 1>>} : out_response' = Body \o bytes
    /\ curl_code' = "retryable"
    /\ Again(last_error)
    /\ UNCHANGED <<settings, authorization, out_status>>

FatalError ==
    /\ phase = "attempt"
    /\ Backoff
    /\ cur_try' = cur_try + 1
    /\ \E bytes \in {<<>>, <<cur_try + 1>>} : out_response' = Body \o bytes
    /\ curl_code' = "fatal"
    /\ HttpReturn("InternalError")
    /\ UNCHANGED <<settings, authorization, out_status>>

\* Variation: an answer that may be retried starts the count again.
AnswerStartsOver(status) ==
    /\ phase = "attempt"
    /\ Backoff
    /\ cur_try' = IF status = "retryable" THEN 1 ELSE cur_try + 1
    /\ curl_code' = "OK" /\ out_status' = status
    /\ out_response' = Append(Body, cur_try + 1)
    /\ IF status = "retryable" THEN Again("Ok") ELSE HttpReturn("Ok")
    /\ UNCHANGED <<settings, authorization>>

\* The server answered.
Response(status) ==
    /\ phase = "attempt"
    /\ Backoff
    /\ cur_try' = cur_try + 1
    /\ curl_code' = "OK" /\ out_status' = status
    /\ out_response' = Append(Body, cur_try + 1)
    /\ IF status = "retryable" THEN Again("Ok") ELSE HttpReturn("Ok")
    /\ UNCHANGED <<settings, authorization>>

Attempt == RetryableError \/ FatalError \/ \E s \in Statuses : Response(s)

Returned == phase = "done" /\ UNCHANGED httpVars

HttpNext ==
    \/ \E p \in Paths \cup {NoPath} : set_ca_bundle_path(p)
    \/ \E p \in Paths : FilesChange(p)
    \/ Begin \/ RefuseWithoutBundle \/ SetUp \/ Attempt \/ Returned

HttpSpec == HttpInit /\ [][HttpNext]_httpVars

\* libcurl ends every attempt within request_timeout_ms, and sleeping ends.
HttpFairSpec == HttpSpec /\ WF_httpVars(RefuseWithoutBundle \/ SetUp \/ Attempt)

-----------------------------------------------------------------------------
Sent == cur_try > 0

\* Giving up is the last resort: the call returns after an attempt that a retry
\* could improve (an answer with such a status, or an error of libcurl that is
\* not fatal) only when it was attempt max_retry_count + 1, and there are never
\* more.
RetriesAreUsedUp ==
    /\ cur_try <= m_options.max_retry_count + 1
    /\ phase = "done" /\ (curl_code = "retryable" \/ (curl_code = "OK" /\ out_status = "retryable")) =>
          cur_try = m_options.max_retry_count + 1

\* A caller that sees Ok and a status it treats as final gets the whole body
\* of that very response: no bytes of failed attempts before or after it.
BodyBelongsToStatus ==
    phase = "done" /\ last_error = "Ok" /\ out_status # "retryable" =>
        out_status # "0" /\ out_response = <<cur_try>>

\* No request goes out without a bundle, and a configured path is never
\* replaced by a default: the bundle is the explicit path, or without one the
\* first variable that is set.
ConfiguredBundleOnly ==
    Sent =>
        /\ m_options.ca_bundle_path # NoPath
        /\ explicit # NoPath => m_options.ca_bundle_path = explicit
        /\ explicit = NoPath =>
              \A i \in 1..3 :
                  environment[i] # NoPath /\ (\A j \in 1..(i - 1) : environment[j] = NoPath) =>
                      m_options.ca_bundle_path = environment[i]

\* "Service key provided, adding Authorization header" (nv_http.cpp): a
\* request made with a service key carries it.
ServiceKeyIsSent == Sent /\ m_service_key => authorization

\* do_request_as_string returns.
RequestReturns == phase = "start" ~> phase = "done"

=============================================================================
