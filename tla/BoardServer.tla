---------------------------- MODULE BoardServer ----------------------------
(***************************************************************************)
(* The board's life from its self-tests on: the console task (app_main),   *)
(* the HTTP server's single task and the engine context they share under   *)
(* g_busy.  firmware/main/fw_main.c and firmware/main/net.c.               *)
(*                                                                         *)
(* The engine context is two cells: enc, the encoder output of the query   *)
(* encoded last, and kv, the cross-attention K/V decoding reads.  A token  *)
(* (the end token counts) is the query whose kv its step read.  Which      *)
(* encode path an HTTP query takes (exact, capture, warm) is any of the    *)
(* three here; WarmSchema says which.  The encode of a client's list may   *)
(* fail here: both parsers keep out the lists ne_encode refuses, but what  *)
(* the callers do about a refusal does not lean on that.                   *)
(***************************************************************************)
EXTENDS Naturals

CONSTANTS
  Clients,    \* HTTP clients; each has one request outstanding at most
  Queries,    \* well-formed id lists, over HTTP or the console
  Malformed,  \* bodies h_tokens rejects: too large, no ids, an id out of range
  Status,     \* the request GET /api/status
  Smoke,      \* the boot smoke query
  Probe,      \* the determinism probe
  MaxSteps,   \* bound: decode steps of one query
  None

Requests == Queries \cup {Malformed, Status}

ASSUME BoardAssumption ==
  /\ {Malformed, Status, Smoke, Probe, None} \cap Queries = {}
  /\ None \notin {Malformed, Status, Smoke, Probe, "console", "httpd"} \cup Clients
  /\ MaxSteps \in Nat \ {0}

VARIABLES
  boot,      \* how far app_main is
  checks,    \* result of each boot check, "none" if it never ran
  failed,    \* g_selftest_failed
  mutex,     \* g_busy was created
  holder,    \* the task that holds g_busy
  started,   \* on_got_ip's static flag
  server,    \* httpd is running
  pc,        \* pc[t]: where task t is in a query
  query,     \* query[t]: the ids t runs
  out,       \* out[t]: the tokens t has so far
  steps,     \* steps[t]: decode steps t has made
  client,    \* the client httpd is serving
  enc, kv,   \* the engine context
  path,      \* g_infer_path
  took,      \* the path httpd's query really took (history)
  sent,      \* sent[c]: c's request, None when it has none outstanding
  midway,    \* midway[c]: httpd was in a query when c sent its request (history)
  resp,      \* resp[c]: the last response to c
  printed    \* the console's last R line

bootVars   == <<boot, checks, failed, mutex>>
netVars    == <<started, server>>
taskVars   == <<pc, query, out, steps>>
engineVars == <<enc, kv, path, took>>
clientVars == <<sent, midway, resp>>
vars == <<bootVars, holder, netVars, taskVars, client, engineVars, clientVars, printed>>

-----------------------------------------------------------------------------

Check == {"kernels", "determinism", "smoke", "alignment"}
Tasks == {"console", "httpd"}

Init ==
  /\ boot = "kernels"
  /\ checks = [k \in Check |-> "none"]
  /\ failed = FALSE
  /\ mutex \in BOOLEAN
  /\ holder = None
  /\ started = FALSE /\ server = FALSE
  /\ pc = [t \in Tasks |-> "idle"]
  /\ query = [t \in Tasks |-> None]
  /\ out = [t \in Tasks |-> {}]
  /\ steps = [t \in Tasks |-> 0]
  /\ client = None
  /\ enc = None /\ kv = None
  /\ path = "e" /\ took = "e"
  /\ sent = [c \in Clients |-> None]
  /\ midway = [c \in Clients |-> FALSE]
  /\ resp = [c \in Clients |-> None]
  /\ printed = None

Goto(t, l) == pc' = [pc EXCEPT ![t] = l]

(* t is done with its query; what it kept of it is not read again.         *)
Finish(t) ==
  /\ Goto(t, "idle")
  /\ query' = [query EXCEPT ![t] = None]
  /\ out' = [out EXCEPT ![t] = {}]
  /\ steps' = [steps EXCEPT ![t] = 0]

(* selftest_record: a FAIL line sets the flag, and nothing clears it.      *)
Record(check, result) ==
  /\ checks' = [checks EXCEPT ![check] = result]
  /\ failed' = (failed \/ result = "fail")

(* kernel_unit_tests, on synthetic data.                                   *)
KernelTests ==
  /\ boot = "kernels"
  /\ \E result \in {"pass", "fail"} : Record("kernels", result)
  /\ boot' = "determinism"
  /\ UNCHANGED <<mutex, holder, netVars, taskVars, client, engineVars, clientVars, printed>>

(* determinism_selftest encodes its probe and decodes, without the lock:   *)
(* nothing else runs yet.  app_main then arms core 1 (SplitHandshake).     *)
DeterminismTest ==
  /\ boot = "determinism"
  /\ \E result \in {"pass", "fail"} : Record("determinism", result)
  /\ enc' = Probe /\ kv' = Probe
  /\ boot' = "smoke"
  /\ UNCHANGED <<mutex, holder, netVars, taskVars, client, path, took, clientVars, printed>>

(* alignment_selftest, after the smoke query whatever became of it.        *)
AlignmentTest ==
  /\ boot = "alignment"
  /\ \E result \in {"pass", "fail"} : Record("alignment", result)
  /\ boot' = "net"
  /\ UNCHANGED <<mutex, holder, netVars, taskVars, client, engineVars, clientVars, printed>>

NetStart ==
  /\ boot = "net"
  /\ boot' = "up"
  /\ UNCHANGED <<checks, failed, mutex, holder, netVars, taskVars, client, engineVars,
                 clientVars, printed>>

(* on_got_ip: the first lease starts the server, a renewal does not, and a *)
(* server that failed to start is not tried again.                         *)
GotIp ==
  /\ boot = "up"
  /\ ~started
  /\ started' = TRUE
  /\ server' \in BOOLEAN
  /\ UNCHANGED <<bootVars, holder, taskVars, client, engineVars, clientVars, printed>>

-----------------------------------------------------------------------------

CanLock == mutex /\ holder = None

Begin(t, q) ==
  /\ holder' = t
  /\ Goto(t, "encode")
  /\ query' = [query EXCEPT ![t] = q]
  /\ out' = [out EXCEPT ![t] = {}]
  /\ steps' = [steps EXCEPT ![t] = 0]

(* run_query_ref: at boot with the smoke ids, later with a console line.   *)
(* A line the console rejects, or finds the lock taken for ("E busy"),     *)
(* changes nothing.                                                        *)
ConsoleQuery(q) ==
  /\ pc["console"] = "idle"
  /\ \/ boot = "smoke" /\ q = Smoke
     \/ boot = "up" /\ q \in Queries
  /\ CanLock
  /\ Begin("console", q)
  /\ UNCHANGED <<bootVars, netVars, client, engineVars, clientVars, printed>>

(* "E busy" for the smoke query: no SMOKE line is recorded.                *)
SmokeRefused ==
  /\ boot = "smoke"
  /\ pc["console"] = "idle"
  /\ ~CanLock
  /\ boot' = "alignment"
  /\ UNCHANGED <<checks, failed, mutex, holder, netVars, taskVars, client, engineVars,
                 clientVars, printed>>

(* MUTANT: the console's query reports its path (always exact) as well.    *)
EncodeReports(t) ==
  /\ pc[t] = "encode"
  /\ enc' = query[t]
  /\ IF t = "httpd"
       THEN \E p \in {"e", "c", "w"} : path' = p /\ took' = p
       ELSE path' = "e" /\ UNCHANGED took
  /\ Goto(t, "cross")
  /\ UNCHANGED <<bootVars, holder, netVars, query, out, steps, client, kv, clientVars, printed>>

(* The encoder layers and the final norm over t's ids.  infer reports the  *)
(* path it took in g_infer_path; run_query_ref does not touch it.          *)
Encode(t) ==
  /\ pc[t] = "encode"
  /\ enc' = query[t]
  /\ IF t = "httpd"
       THEN \E p \in {"e", "c", "w"} : path' = p /\ took' = p
       ELSE UNCHANGED <<path, took>>
  /\ Goto(t, "cross")
  /\ UNCHANGED <<bootVars, holder, netVars, query, out, steps, client, kv, clientVars, printed>>

(* MUTANT: the return on a failed encode forgets the lock.                 *)
EncodeFailsLocked(t) ==
  /\ pc[t] = "encode"
  /\ query[t] # Smoke
  /\ enc' = None
  /\ IF t = "httpd" THEN Goto(t, "failed") /\ UNCHANGED <<query, out, steps>> ELSE Finish(t)
  /\ UNCHANGED <<bootVars, holder, netVars, client, kv, path, took,
                 clientVars, printed>>

(* The encode is refused, after some of its ids were looked up or none:    *)
(* run_query_ref unlocks and returns, and infer has its caller unlock.     *)
(* The smoke ids are a constant of the build that is in range.             *)
EncodeFails(t) ==
  /\ pc[t] = "encode"
  /\ query[t] # Smoke
  /\ enc' = None
  /\ holder' = None
  /\ IF t = "httpd" THEN Goto(t, "failed") /\ UNCHANGED <<query, out, steps>> ELSE Finish(t)
  /\ UNCHANGED <<bootVars, netVars, client, kv, path, took,
                 clientVars, printed>>

(* The cross-attention K/V of every decoder layer, from the encoder output.*)
CrossKV(t) ==
  /\ pc[t] = "cross"
  /\ kv' = enc
  /\ Goto(t, "decode")
  /\ UNCHANGED <<bootVars, holder, netVars, query, out, steps, client, enc, path, took,
                 clientVars, printed>>

(* One step of the loop over ne_step_f.                                    *)
DecodeStep(t) ==
  /\ pc[t] = "decode"
  /\ steps[t] < MaxSteps
  /\ out' = [out EXCEPT ![t] = @ \cup {kv}]
  /\ steps' = [steps EXCEPT ![t] = @ + 1]
  /\ UNCHANGED <<bootVars, holder, netVars, pc, query, client, engineVars, clientVars, printed>>

(* MUTANT: a passing smoke query returns before the unlock.                *)
ConsoleDoneLocked ==
  /\ pc["console"] = "decode"
  /\ steps["console"] > 0
  /\ printed' = [ids |-> query["console"], tokens |-> out["console"]]
  /\ Finish("console")
  /\ IF boot = "smoke"
       THEN Record("smoke", "pass") /\ boot' = "alignment" /\ UNCHANGED holder
       ELSE holder' = None /\ UNCHANGED <<boot, checks, failed>>
  /\ UNCHANGED <<mutex, netVars, client, engineVars, clientVars>>

(* The console prints its R line, then unlocks.  The boot query is first   *)
(* compared with the reference tokens, which a wrong model also fails.     *)
ConsoleDone ==
  /\ pc["console"] = "decode"
  /\ steps["console"] > 0
  /\ printed' = [ids |-> query["console"], tokens |-> out["console"]]
  /\ holder' = None
  /\ Finish("console")
  /\ IF boot = "smoke"
       THEN /\ \E result \in {"pass", "fail"} :
                 /\ result = "pass" => out["console"] = {Smoke}
                 /\ Record("smoke", result)
            /\ boot' = "alignment"
       ELSE UNCHANGED <<boot, checks, failed>>
  /\ UNCHANGED <<mutex, netVars, client, engineVars, clientVars>>
-----------------------------------------------------------------------------

(* A client sends a request; it has one outstanding at a time.             *)
Send(c, r) ==
  /\ server
  /\ sent[c] = None
  /\ sent' = [sent EXCEPT ![c] = r]
  /\ midway' = [midway EXCEPT ![c] = holder = "httpd"]
  /\ resp' = [resp EXCEPT ![c] = None]
  /\ UNCHANGED <<bootVars, holder, netVars, taskVars, client, engineVars, printed>>

Respond(c, r) ==
  /\ resp' = [resp EXCEPT ![c] = r]
  /\ sent' = [sent EXCEPT ![c] = None]
  /\ UNCHANGED midway

Idle == server /\ pc["httpd"] = "idle"

(* The connection drops while its body is read (httpd_req_recv <= 0).      *)
RecvFails(c) ==
  /\ Idle
  /\ sent[c] \in Queries \cup {Malformed}
  /\ Respond(c, [code |-> "closed"])
  /\ UNCHANGED <<bootVars, holder, netVars, taskVars, client, engineVars, printed>>

(* h_status, and the bodies h_tokens rejects with 413 or 400.              *)
Answer(c) ==
  /\ Idle
  /\ \/ sent[c] = Status /\ Respond(c, [code |-> "status", ready |-> ~failed])
     \/ sent[c] = Malformed /\ Respond(c, [code |-> "400"])
  /\ UNCHANGED <<bootVars, holder, netVars, taskVars, client, engineVars, printed>>

(* MUTANT: a board that failed its checks drops the request unanswered.    *)
RefuseBusyOnly(c) ==
  /\ Idle
  /\ sent[c] \in Queries
  /\ ~failed /\ ~CanLock /\ Respond(c, [code |-> "503"])
  /\ UNCHANGED <<bootVars, holder, netVars, taskVars, client, engineVars, printed>>

(* The gate on the boot checks comes before the lock.                      *)
Refuse(c) ==
  /\ Idle
  /\ sent[c] \in Queries
  /\ \/ failed /\ Respond(c, [code |-> "500"])
     \/ ~failed /\ ~CanLock /\ Respond(c, [code |-> "503"])
  /\ UNCHANGED <<bootVars, holder, netVars, taskVars, client, engineVars, printed>>

(* MUTANT: a query is run without asking for the lock.                     *)
ServeUnlocked(c) ==
  /\ Idle
  /\ sent[c] \in Queries
  /\ ~failed
  /\ Begin("httpd", sent[c])
  /\ client' = c
  /\ path' = "e"
  /\ UNCHANGED <<bootVars, netVars, enc, kv, took, clientVars, printed>>

(* MUTANT: the gate on the boot checks is missing.                         *)
ServeUngated(c) ==
  /\ Idle
  /\ sent[c] \in Queries
  /\ CanLock
  /\ Begin("httpd", sent[c])
  /\ client' = c
  /\ path' = "e"
  /\ UNCHANGED <<bootVars, netVars, enc, kv, took, clientVars, printed>>

(* h_tokens takes the lock and calls infer, which resets g_infer_path.     *)
Serve(c) ==
  /\ Idle
  /\ sent[c] \in Queries
  /\ ~failed
  /\ CanLock
  /\ Begin("httpd", sent[c])
  /\ client' = c
  /\ path' = "e"
  /\ UNCHANGED <<bootVars, netVars, enc, kv, took, clientVars, printed>>

(* infer returns and h_tokens unlocks.                                     *)
HttpUnlock ==
  /\ pc["httpd"] = "decode"
  /\ steps["httpd"] > 0
  /\ holder' = None
  /\ Goto("httpd", "reply")
  /\ UNCHANGED <<bootVars, netVars, query, out, steps, client, engineVars, clientVars, printed>>

(* The response is put together after the unlock, from out and             *)
(* g_infer_path.                                                           *)
HttpReply ==
  /\ pc["httpd"] = "reply"
  /\ Respond(client, [code |-> "200", asked |-> sent[client],
                      tokens |-> out["httpd"], path |-> path, took |-> took])
  /\ client' = None
  /\ Finish("httpd")
  /\ UNCHANGED <<bootVars, holder, netVars, engineVars, printed>>

(* "inference failed", after the unlock as well.                           *)
HttpFailed ==
  /\ pc["httpd"] = "failed"
  /\ Respond(client, [code |-> "500"])
  /\ client' = None
  /\ Finish("httpd")
  /\ UNCHANGED <<bootVars, holder, netVars, engineVars, printed>>

-----------------------------------------------------------------------------

Boot == KernelTests \/ DeterminismTest \/ SmokeRefused \/ AlignmentTest \/ NetStart

(* One task's steps through a query it has started.                        *)
Run(t) == Encode(t) \/ EncodeFails(t) \/ CrossKV(t) \/ DecodeStep(t)

ConsoleStep == Run("console") \/ ConsoleDone
HttpStep    == Run("httpd") \/ HttpUnlock \/ HttpReply \/ HttpFailed

(* httpd reads the request of client c and acts on it.                     *)
Handle(c) == Answer(c) \/ Refuse(c) \/ Serve(c)

Next ==
  \/ Boot \/ GotIp
  \/ \E q \in Queries \cup {Smoke} : ConsoleQuery(q)
  \/ ConsoleStep \/ HttpStep
  \/ \E c \in Clients : RecvFails(c) \/ Handle(c) \/ \E r \in Requests : Send(c, r)

Spec == Init /\ [][Next]_vars

(* A task in a query keeps running: it waits for nothing but core 1, and   *)
(* what httpd waits for (the network) leaves core 0 to the console, whose  *)
(* priority is lower.  httpd serves its ready sockets in turn, so a        *)
(* request is handled if httpd is idle again and again.                    *)
Fairness ==
  /\ WF_vars(ConsoleStep)
  /\ WF_vars(HttpStep)
  /\ \A c \in Clients : SF_vars(Handle(c))

FairSpec == Spec /\ Fairness

-----------------------------------------------------------------------------

Codes == {"200", "400", "500", "503", "status", "closed"}

TypeOK ==
  /\ boot \in {"kernels", "determinism", "smoke", "alignment", "net", "up"}
  /\ checks \in [Check -> {"none", "pass", "fail"}]
  /\ failed \in BOOLEAN /\ mutex \in BOOLEAN /\ started \in BOOLEAN /\ server \in BOOLEAN
  /\ holder \in Tasks \cup {None}
  /\ pc \in [Tasks -> {"idle", "encode", "cross", "decode", "reply", "failed"}]
  /\ query \in [Tasks -> Queries \cup {Smoke, None}]
  /\ out \in [Tasks -> SUBSET (Queries \cup {Smoke, Probe})]
  /\ steps \in [Tasks -> 0 .. MaxSteps]
  /\ client \in Clients \cup {None}
  /\ enc \in Queries \cup {Smoke, Probe, None}
  /\ kv \in Queries \cup {Smoke, Probe, None}
  /\ path \in {"e", "c", "w"} /\ took \in {"e", "c", "w"}
  /\ sent \in [Clients -> Requests \cup {None}]
  /\ midway \in [Clients -> BOOLEAN]
  /\ DOMAIN resp = Clients
  /\ \A c \in Clients : resp[c] = None \/ resp[c].code \in Codes

Served(c) == resp[c] # None /\ resp[c].code = "200"

(* What a query returns was decoded from its own encoding, over HTTP and   *)
(* on the console alike: two callers never interleave inside the engine    *)
(* (net.c:63-66).                                                          *)
TokensAreOwn ==
  /\ \A c \in Clients : Served(c) => resp[c].tokens = {resp[c].asked}
  /\ printed # None => printed.tokens = {printed.ids}

(* The path a response names is the one its own query took, although       *)
(* g_infer_path is read after the lock was given back (net.c:197, 211).    *)
PathIsOwn == \A c \in Clients : Served(c) => resp[c].path = resp[c].took

(* A served answer comes from a board all of whose boot checks ran and     *)
(* passed, the smoke query's too, which is recorded only if it got the     *)
(* lock (net.c:185-189, fw_main.c:342, 378).                               *)
ServedOnlyAfterChecks ==
  \A c \in Clients : Served(c) => \A k \in Check : checks[k] = "pass"

(* "busy" is said only while the console runs a query, or on a board whose *)
(* mutex was never created: h_tokens leaves no lock behind on any path,    *)
(* the one on which the encode was refused included (net.c:196-201).       *)
BusyIsTrue ==
  [][\A c \in Clients :
       resp'[c] # resp[c] /\ resp'[c] # None /\ resp'[c].code = "503" =>
         holder = "console" \/ ~mutex]_vars

(* Whoever takes the lock gives it back, whatever becomes of the query     *)
(* (fw_main.c:344-348, net.c:198).                                         *)
LockReleased == \A t \in Tasks : holder = t ~> holder # t

(* Every request is answered in the end, refused or not.                   *)
Answered == \A c \in Clients : sent[c] # None ~> sent[c] = None

(* net.c:66-67: "a request that arrives mid-inference is refused rather    *)
(* than queued".  It is not when the inference is httpd's own: the second  *)
(* request waits in its socket for the one server task and is then served. *)
RefusedIfMidInference == \A c \in Clients : Served(c) => ~midway[c]
=============================================================================
