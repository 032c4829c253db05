# A TLA+ verification of the attestation SDK

The SDK collects evidence from NVIDIA GPUs and NVSwitches, verifies it locally or
through the remote attestation service (NRAS), and returns claims and a verdict.
This directory holds TLA+ models of the SDK, of its C API and Rust bindings and of the
command line tool, the TLC configurations that check them, and TLAPS proofs of the
properties that matter most. Paths below are relative to `nv-attestation-sdk-cpp/`
unless they say otherwise.

## The system and its parts

| Part | Code | State, and what changes it | Module |
|---|---|---|---|
| In-memory cache | `src/nv_cache.cpp` | map, LRU list, insertion list, byte count, under one mutex | `NvCache`, `TtlMap` |
| Caching OCSP client, caching RIM store | `src/nv_ocsp.cpp` 631-711, `src/rim.cpp` | the cache, shared by threads | `CachingClients` |
| OCSP clients, certificate chains, chain rules of the policy | `src/nv_ocsp.cpp`, `src/nv_x509.cpp`, `src/claims_evaluator.cpp` | claims folded over the answers for a chain | `OcspChain` |
| HTTP client | `src/nv_http.cpp` | options, retry loop, results of a call | `HttpClient` |
| JWK store | `src/nv_jwt.cpp` | key set and its age, under one mutex | `JwkStore` |
| Attestation context | `src/attestation.cpp` | settings, lazily built clients and verifiers | `AttestationContext` |
| Driver libraries | `src/gpu/nvml_client.cpp`, `src/gpu/corelib_client.cpp`, `src/switch/nscq_client.cpp`, `src/init.cpp` | process-wide handle, function table, flags | `DriverLibrary` |
| Evidence collection | the same clients, `src/gpu/evidence.cpp`, `src/switch/evidence.cpp` | evidence list, NSCQ session input, SPDM transcript | `Collectors` |
| SPDM parsers, attestation reports | `src/spdm`, `src/gpu/spdm`, `src/switch/spdm`, `src/*/evidence.cpp` | offsets in a buffer, parsed fields | `Spdm`, `AttestationReport` |
| Verifiers, claims, detached EAT | `src/verify.cpp`, `src/gpu/verify.cpp`, `src/switch/verify.cpp`, `src/claims.cpp` | claims and EAT, through a pipeline of checks | `VerifyEvidence`, `LocalVerifier`, `RemoteVerifier`, `Verifiers` |
| C API, Rust bindings | `src/nvat.cpp`; `nv-attestation-sdk-rust` (from the repository root) | handles and what they own | `Nvat` |
| Command line tool | `nv-attestation-cli` (from the repository root) | options, a context, an evidence file, exit status | `Nvattest` |
| Release rail | `sol/release` (from the repository root) | | no |
| Logging, utilities, policy engine binding | `src/log.cpp`, `utils.h`, `src/rego_engine` | none of interest | no |

An application, such as the command line tool, configures an `AttestationContext`
through handles of the C API. At the first attestation the context builds a RIM store,
an OCSP client and verifiers; they are kept until a setter discards them. The stores and
clients sit on `NvCache` and `NvHttpClient`. Collectors load a driver library once per
process, and parse the reports that devices send. The default verifiers ask the RIM store
and, for each certificate chain, the OCSP client; remote ones ask NRAS and check its
tokens with keys of the `JwkStore`. The SDK itself persists nothing, so there is no crash
recovery; the evidence files of the tool are the one thing that outlives a process. What
is hard is sharing between threads, order of calls, time, ownership, and partial failure.

## The modules

Variables and actions keep the names of the code where TLA+ allows it. Definitions
marked `Variation` are altered forms of the definition that follows them. They are no
part of a specification; they record which mistake each property detects.

**TtlMap** is what a client of the cache may rely on: a map that may lose entries at any
time and never returns an entry at or after its expiry, or a value other than the last
one stored. **NvCache** is `nv_cache.cpp`. `get`, `remove` and `clear` are one action
each, because they hold the mutex throughout. `put` holds it too, but reads the clock in
every iteration of its first loop and again when it inserts, so it is a sequence of
steps with `putting` as its lock and locals. `time(nullptr)` may be set back at any
moment; the history variable `setBack` records that it was.

**CachingClients** is both caching clients, chosen by `kind`. Look-up, check of the hit,
request and put are steps of a thread, interleaved with other threads, the clock and the
service. The cache is an instance of `TtlMap`, by its actions, so that the refinement of
`TtlMap` by `NvCache` carries over; oversized objects are refused. A response or a
document is represented by its times and by whether it is from before or after the change
(a revocation, a publication) at the service. Two things are assumed here: a responder does
not send a response whose nextUpdate has passed, because the client compares with the clock
only what it finds in the cache; and the clock is not set back, which `NvCache` covers.

**OcspChain** takes one chain at a time from verification to verdict: `verify` compares
the path OpenSSL built with the presented chain, `Ask` gets a status for each certificate
below the root, `Merge` folds it into the claims, and `Judge` applies the rules of the
overall policy. Three clients answer: the HTTP client, the raw-proof client, and any
implementation an application may supply. Certificates are numbers, the root is
`Root`. **OcspValidity** is what it shares with `CachingClients`: how the HTTP client
arrives at nextUpdate.

**HttpClient** is one request with the resolution of the CA bundle before it. A body is
the sequence of attempts whose bytes it contains, which is enough to tell a mixture.
Statuses and libcurl errors are one of each kind the code distinguishes; both may be retried.
On Windows (`windows`) the client reads the bundle itself before each request and refuses one
that cannot be read.

**JwkStore** has threads that look for keys under the mutex, which is held during the
HTTP request, while keys are published and withdrawn at the service.

**AttestationContext** has one action per setter and one for an attestation; a client
or verifier is a record of the settings it was built from. **Nvattest** extends it with
the command line tool: `pc` is where `attest` or `collect_evidence` is, each action is
one call of the C API with its error path, and `argv` is what the options were parsed to.
Both builds of the tool are covered (`Builds`): the full one, and the one for
verification only, which cannot collect. `evidence` and `file` follow evidence through the JSON source and the file between
two invocations, where entries of several collections may be put together. At
`"application"` the context is used by any other program, so the properties of
the context are checked over all orders of its setters as well.

**DriverLibrary** is the structure shared by `init_nvml`, `init_nscq` and `init_corelib`
and by the shutdown functions: flag test, `call_once`, `dlopen`, symbols, start,
publication. The history variable `quiet` records that no shutdown has met a thread
inside a call. Once one has, the table may be empty or the driver stopped when the next call
goes through it: `crashed` is the end of the process that this can be, for a collection and
for the second of two shutdowns. **Collectors** extends it with `collect_evidence_nvml`, `_nscq` and
`_corelib`, call by call, so that loading, collection and shutdown interleave. The nonce
is an argument for NVML and Corelib, and for NSCQ an input of the one session, set by one
call and used by a later one; Corelib takes the report from the transcript of an SPDM
client, which has to be reset first.

**Spdm** has byte vectors, the reads of the parsers, and the messages a device sends.
**AttestationReport** parses a report as `AttestationReport::create` does: request,
response header, measurement blocks, opaque fields and signature, one action per
function or loop iteration, with the offsets of the code. `GenerateClaims` has every error on
the way to the claims, in the order of the code: versions, nonce, firmware id, chain, identity
and RIM identifiers; the text of claims that are only copied is left out. A read outside of the vector
yields `Wild`, which is no byte. The inputs are what a device sends, whole, truncated, and
with bytes changed, lengths and counts included. Sizes that only scale
a message (nonce, signature) are small; the widths of length fields are those of the code.

**VerifyEvidence** holds the arguments and results of a call of `verify_evidence` and
the rules a detached EAT has to obey. **LocalVerifier** has one action per stage of
`generate_claims_v3`, for GPUs and switches: report, claims of the report, driver RIM,
VBIOS RIM, measurements, and `get_detached_eat`. Each may return early. Documents are
chosen when they are read; the history variable `seen` keeps what they really said, so
that a verdict can be compared with it. Measurements are compared in full, over all
small RIM documents and reports, with `Genuine` as the reference. **RemoteVerifier** is
the request to NRAS, whose answer is arbitrary, and the loop over its tokens.
**Verifiers** puts the two together and states what both owe to `attest_device`.

**Nvat** is the ownership of the C API and of the Rust types over it. A handle is a box
around a shared object, a context holds references, and the actions are the functions
that make, share, move, take or free a handle, called by a C application or by the Rust
methods with their `Drop`. The upcast functions return the pointer they are given, so a
verifier and its upcast form are one handle. Setters that move the object out of the handle they are given
leave it empty, as the code does.

## The runs

| Run | Checks | Instance | Distinct states |
|---|---|---|---|
| NvCache | indexes and byte count agree; live entries are evicted last; refinement of `TtlMap`; `put` ends | 3 keys, 3 bytes, sizes 1 and 2 and one that never fits, clock past the TTL and set back | 150,888 |
| CachingClients | no response whose nextUpdate had passed when the call began; a revocation takes effect; bounded staleness of RIMs | both clients, 2 threads, 2 keys of which one is oversized, responses with and without nextUpdate | 4,123,590 |
| HttpClient | body, status and retries belong together; termination; only the configured bundle is used | up to 3 attempts, backoffs on both sides of the maximum, bundle files that change | 492,480 |
| OcspChain | coverage, freshness, worst status, earliest times | all chains of up to 4 certificates, all 3 clients | 2,694,409 |
| JwkStore | withdrawn keys expire; published keys are found | 2 threads, 2 keys | 525,458 |
| Collectors | one start; collection from a running library; completeness; own nonce if serial; termination, or the crash of a shutdown that met a call | all 3 libraries, 2 threads, shutdown at any time, 2 devices, 2 nonces | 161,416 |
| AttestationReport | no byte outside a buffer is used; the signature kept is the one that was checked; reports are understood as sent; claims are backed; termination | 80 whole reports of every mixture of a few records and fields, and 3 with every truncation, an extra byte, and every byte changed; both devices | 26,880 |
| Verifiers | claims are complete whenever they are used; Ok is backed; the EAT is faithful | 2 nonces, up to 2 pieces of evidence, RIM indices 34 and 35, 2 values, answers for up to 2 devices | 213,281 |
| Nvat | a handle refers to a box of its own and of its type; verifiers have clients; memory is lost only in calls that report an error | up to 5 boxes, 2 devices, C and Rust | 340,092 |
| Nvattest | nothing outdated is kept by the context; Ok is backed by every evaluator; the tool attests as asked; offline is offline; exit status and verdict; nonce of evidence from a file | 2 values of each setting, all command lines, 2 nonces, both builds | 706,600 |

Each property has a `Variation` that violates it in the same instance; `PROJECT.json`
lists the pairs. The type invariants (`TypeOK`, where a module has one) hold in the same
instances. They are not among the properties of the runs, as they say little beyond them;
what the proofs need of them is part of the inductive invariants below.

The bounds are two or three of each thing that can be confused with another (threads,
keys, values, attempts), and clocks that run past every deadline in the model.
`MaxTime` bounds the exploration only. `MaxPutDelay` in `CachingClients` is
different: it is the longest time between the answer of the inner RIM store and the put,
and the staleness bound is stated in terms of it. `MaxBoxes` and `MaxDevices` limit the heap
in `Nvat`; an allocation beyond them fails, which the code handles as lack of memory. Five
boxes are enough for a context, a verifier, what either shares, and a result. The
constraint `DefaultHttpOptions` of `MCNvattest` does not follow an application once it has
changed its HTTP options; the command line tool is followed with all of them, and the
proofs have no such limit.

Fairness is weak fairness of a thread that is inside a call. The code justifies it
because every wait ends: HTTP attempts have timeouts and a limited number of retries,
the other steps are straight-line code, and driver calls are taken to return. In
`Collectors` a thread waiting in `call_once` proceeds once the other has left, and
`GetEvidenceReturns` promises a return only if the process has not crashed.
It is assumed in the runs that have a liveness property: NvCache, HttpClient, Collectors and
AttestationReport. Callers, the clock, services and files are never assumed to make progress.
Deadlock is checked where calls can be repeated for ever; a report that was parsed and a
process that has exited or crashed may stop, so it is not in AttestationReport, Nvat and Nvattest.

### Disagreements with documentation

Two runs exhibit a behaviour of the code that a comment or the header documents
differently. `PROJECT.json` quotes the lines.

- HttpServiceKey: a request without headers of its own does not send the service key.
- ContextOverall: without a policy and without a detached EAT, Ok of a local verifier
  says nothing about the overall result.

Others were met while modelling and have no run of their own:

- `src/gpu/nvml_client.cpp:188` says "If already initialized, return Ok", but a thread that
  finds the once-flag used, because another has just initialised the library, returns the
  preset error.
- The setters of the default RIM store and OCSP client move the object out of the handle
  they are given. The header calls these objects "refcounted and safe to share"
  (`include/nvat.h.in:434` and 518).
- `nvat_attestation_ctx_set_relying_party_policy` refuses NULL, which the header says
  clears the policy (`include/nvat.h.in:1335`).
- `nvat_nonce_create` with length 0 returns Ok without a handle.
- `nvat_attest_device` does not release the detached EAT on its error paths, and the Rust methods do
  not take over pointers that come with a code other than Ok. This is why `LossesAreFailures`
  says that memory is lost only in calls that report an error.
- The first backoff is limited by the base and not by the maximum.
- No reason is reported if the certificate asked about first is revoked
  (`include/nv_attestation/nv_x509.h:94`), and the nonce claim of a chain does not
  depend on the statuses (line 100).
- The expiration time in the claims is the earliest of the chain, as `src/nv_x509.cpp:634` says,
  and not that of the last certificate (`include/nv_attestation/nv_x509.h:106`).
- A new context verifies remotely (`include/nvat.h.in:1297`), and setting the NRAS URL drops
  verifiers that the application set (line 1320).
- Overlapping NSCQ collections can exchange nonces (`include/nvat.h.in:836`), which is why
  `SerialNonceWasUsed` speaks of collections that did not overlap.

## The proofs

All theorems hold for every value of the constants that meets the named assumption: any
threads, keys, certificates, devices, nonces, settings, limits and durations.

**NvCacheProofs** (`CacheConstants`): `TypeCorrect`, `IndexesAlwaysAgree`,
`SizeAlwaysAccurate`; `InsertionAlwaysSorted` and `LiveEvictedLast`: until the clock is
stepped back the insertion list is in order of expiry, and `put` evicts an object that
was live when it took the lock only if no expired one is left; `RefinesTtlMap`. The
invariant `IInv` adds two facts to the properties. The set of sized entries is finite, which
the sum of sizes needs. `PutFits`: a put in progress has an object that fits and a key that
is not cached; without it the insertion could exceed the limit or list a key twice. The
order needs `OrderInv`, stated for `~setBack`: no expiry lies more than a TTL ahead of the
clock, so a new front is never older than the rest, and after the first loop either there is
room or every remaining entry was live when the put began.

**CachingClientsProofs** (`CachingClientsConstants`): `NeverAnsweredPastNextUpdate`,
`RevocationAlwaysTakesEffect`, `StalenessAlwaysBounded`. The invariant follows a document
from the service through the cache to the caller. `Sound`: it is not from the future, does
not miss a change that came before it, and is valid for at most `LongestValidity`.
`StoreInv`: a cached RIM expires at most TTL plus put delay after the service had it.
`CallInv`: what a thread holds after a hit or a fetch is recent for the time its call
began. The bounds follow by adding up: a call began by nextUpdate, which lies at most one
validity after thisUpdate, which lies before the revocation.

**OcspChainProofs** (`OcspChainConstants`, `OcspValidityConstants`):
`EveryCertificateAlwaysAsked`, `AcceptedAlwaysGoodAndFresh`, `HighestBadAlwaysReported`,
`EarliestTimesAlwaysReported`. The claims are folded over the answers one certificate at a
time, so no induction over the chain is needed: the invariant `ChainInv` says what the
claims are after any number of answers, and the step is one `Merge`. `LoopInv`: the chain
that `verify` let pass leads straight from its leaf to the anchor (`Straight`), and
the index in the loop and the number of answers add up. `AskedInv`: the answers are for
the certificates from the top downwards, each under its issuer, and each is one a client
can give (`SoundAnswer`: a signed-age answer was within its window). `ClaimsInv`:
the flags of the claims are those of all answers (`FlagsInv`), their times are the least
among them (`TimesInv`), and their status is that of the first bad one (`StatusInv`).

**HttpProofs** has the HTTP client and the store that fetches keys with it.
For the client (`HttpClientConstants`): `RetriesAlwaysUsedUp`, `BodyAlwaysBelongsToStatus`,
`AlwaysConfiguredBundleOnly`. `HttpInv` adds to the three properties what holds inside the
loop (`LoopInv`): an attempt is left, there is a bundle, nothing was received before the
first attempt, and a status left behind by an earlier attempt is one that is retried; and
that the options hold the bundle which `resolve_ca_bundle_path` chose (`Configured`), with
`ResolveProperty` for the choice itself.
For the store (`JwkStoreConstants`): `WithdrawnKeysAlwaysExpire`,
`PublishedKeyAlwaysFound`. The invariant needs the mutex (`MutexInv`), that no key in the
set was withdrawn before the last update (`CacheInv`), and that a thread which goes on to
look for a key does so in a set that was young enough when it read the clock (`CallInv`).

**VerifiersProofs** (`VerifyEvidenceConstants`, `LocalVerifierConstants`, `NoEatIsNone`,
`RemoteVerifierConstants`): `ClaimsAreAlwaysComplete`, `AcceptedIsAlwaysBacked`,
`EatIsAlwaysFaithful`. A property about the result of a pipeline needs an invariant for
each of its stages. `LocalInv` says that the claims made so far are no better than
the documents were (`Finished`, `CurrentInv`), stage by stage; `RemoteInv` that the claims
appended so far are those of the tokens visited, each once. That a comparison without a
mismatch is genuine is a lemma (`ComparisonIsGenuine`), for all RIM documents and
reports; so is that the submodules of an EAT have different names (`SubmodsProperty`).

**NvatProofs** (`NvatConstants`): `HandlesAreAlwaysSound`, `VerifiersAlwaysHaveClients` and
the action property `LossesAreAlwaysFailures`. The invariant types the heap: a box has
the contents that its kind can have in that language (`HeapInv`), a handle variable refers
to a box made for it, and the elements of a list are on the heap (`VarInv`). Each function
of the API is shown to keep it and to lose nothing but as `LossIsFailure` allows
(`StepOK`); functions that only differ in the kind of box share a lemma (`CreatesOK`,
`TakesOK`, `UpdateOK`, `ShrinkOK`).

**CollectorsProofs** has the driver library and the collectors that use it. For the library
(no assumption): `DriverStartedOnce`, `LibraryAlwaysRunning`. The
invariant `LoadedOnce` has one thread inside `call_once`, and ties each of its labels to
what is already loaded; `QuietInv` says that, while `quiet` holds, nobody else is inside a
call during a shutdown, the flag tells whether the library runs, and nothing has crashed.
For the collectors (`CollectorsConstants`): `CollectorsUseTheLibrary` shows that they
implement the specification of `DriverLibrary`; with it
`DriverStartedOnceByCollectors` and `CollectorsHaveTheLibrary` are immediate.
`OkAlwaysComplete` and `SerialNonceAlwaysUsed` need an invariant over the loop: the evidence
so far is that of the devices before the current one, in order, and while no two
collections have overlapped the session's nonce is that of the thread in between.

**NvattestProofs** has the attestation context and the tool. For the context
(`SettingsConstants`, `NullIsNoObject`): `NothingEverOutdated`,
`VerdictAlwaysBacked`, one step per setter and one for an attestation. The invariant adds
`LocalHasClients`: a local verifier that the context made has its clients beside it, so
that a setter which replaces a client has to discard the verifier as well.
For the tool (`NvattestConstants`): `ToolIsAnApplication` shows that it uses the
context as its specification allows, so that these two theorems hold in it.
`AlwaysAttestsAsAsked`, `OfflineAlwaysOffline`, `StatusAlwaysTellsTheVerdict` and
`FileEvidenceAlwaysHasTheNonce` rest on an invariant that says, for each step of the
tool, which options have reached the context by then.

Only model-checked are:

- liveness (`PutReturns`, `RequestReturns`, `GetEvidenceReturns`, `ParsingEnds`), which
  needs fairness and is out of the prover's reach;
- the properties of `AttestationReport`. What `read_little_endian` computes, and that
  parsing undoes the encoding of a device, are facts about recursive definitions over byte
  sequences, which need induction over data.

## What is left out of the models

libcurl, OpenSSL, xmlsec, the policy interpreter, the drivers and the services appear
as nondeterministic outcomes. Steps are sequentially consistent: the initialisation
flag of a driver library is a plain `bool`, and what a data race on it could make
visible is not modelled. Exceptions from malformed JSON or tokens are not modelled.
The verifiers are modelled for claims version 3, the only one that can be selected, and
for RIM measurements with at least one value. The remote verifiers do not compare the
number of devices in the answer of NRAS with that of the evidence, and
`ClaimsAreComplete` speaks of the devices in the answer.
Shutdown during a collection is explored with the crash it can lead to, and
`CollectsFromRunningLibrary` is claimed only while `quiet` holds; what else memory that was
unloaded may do is not modelled. A C application in `Nvat` clears its out variables and does not use
what it gave away.

## Not modelled

- The release rail: build tooling that runs other programs over a directory tree. It shares no state with
  the SDK, and what it promises is about the contents of that tree.
- The text output, help and version of the command line tool: formatting.
- The builders and the logger callback of the Rust bindings: each forwards a value.
- The XML of RIM documents and the claims' JSON: conversions of libraries, of which the
  verifiers see the outcome.
- Logging and utilities: no state that a property could be about.
- The policy engine binding: one call into the interpreter; its outcome is chosen in
  `AttestationContext`.
- The library calls of `nvat_sdk_init` (curl, OpenSSL, xmlsec, logger): a straight
  line of external initialisers. `DriverLibrary` has what shutdown does to the SDK options
  and the driver libraries.
