------------------------------- MODULE PmTransport -------------------------------
(***************************************************************************)
(* A round trip to the store under a microscope (mcp_client._post_payload):*)
(* a request is posted, may be answered by 502/503/504 although it was, or *)
(* will be, handled, is posted again with the same body, and the client    *)
(* may give up while copies of it are still under way.  The other modules  *)
(* take a round trip for one step; here is what that rests on.             *)
(*                                                                         *)
(* The commands are reduced to their skeleton: read the head of a status   *)
(* chain, check it, and append a record linked to a head that was read.    *)
(* For a claim it is the head that was checked, and that is `new`; a       *)
(* release checks for `working` and reads again for the link.              *)
(***************************************************************************)
EXTENDS Naturals, Sequences

CONSTANTS
  Clients,      \* the processes that run commands on one task
  NoClient,     \* who wrote the genesis
  MaxAttempts,  \* PM_MCP_RETRY_MAX: how often a request is posted at most
  MaxCalls      \* bound on the commands of a client

ASSUME NoClientAssumption == NoClient \notin Clients
ASSUME AttemptsAssumption == MaxAttempts \in Nat \ {0}
ASSUME CallsAssumption == MaxCalls \in Nat

VARIABLES
  chain,        \* the TaskStatus chain of the task
  wire,         \* the create_item requests the store has not handled (yet, or ever)
  client,       \* what each client is doing
  told          \* what its commands have reported, by number

vars == <<chain, wire, client, told>>

-------------------------------------------------------------------------------
(* Records *)

Statuses == {"new", "working"}

\* by and call stand for the nonce in the text of a record: drawn once for a
\* command, it is the same in all copies of its request.
Record == [status: Statuses, by: Clients \cup {NoClient}, call: 0 .. MaxCalls]

Request == [status: Statuses, by: Clients, call: 1 .. MaxCalls, link: Nat,
            attempt: 1 .. MaxAttempts]

\* op is the status to append, link the predecessor it will carry, answer what
\* the store has said to the attempt the client is waiting for.
ClientRecord ==
  [pc: {"idle", "read", "link", "create"}, op: Statuses, call: 0 .. MaxCalls,
   attempt: 1 .. MaxAttempts, link: Nat, answer: {"none", "ok", "moved", "exists"}]

Verdicts == {"none", "ok", "lost", "failed"}

TypeOK ==
  /\ chain \in Seq(Record)
  /\ wire \subseteq Request
  /\ client \in [Clients -> ClientRecord]
  /\ told \in [Clients -> [1 .. MaxCalls -> Verdicts]]

Genesis == [status |-> "new", by |-> NoClient, call |-> 0]

\* Between two commands, and in a command before its check, its read for the link
\* and its create_item are answered.
Resting(n) ==
  [pc |-> "idle", op |-> "new", call |-> n, attempt |-> 1, link |-> 0, answer |-> "none"]
Reading(op, n) ==
  [pc |-> "read", op |-> op, call |-> n, attempt |-> 1, link |-> 0, answer |-> "none"]
Linking(op, n) == [Reading(op, n) EXCEPT !.pc = "link"]
Creating(op, n, l) ==
  [pc |-> "create", op |-> op, call |-> n, attempt |-> 1, link |-> l, answer |-> "none"]

Init ==
  /\ chain = <<Genesis>>
  /\ wire = {}
  /\ client = [c \in Clients |-> Resting(0)]
  /\ told = [c \in Clients |-> [k \in 1 .. MaxCalls |-> "none"]]

-------------------------------------------------------------------------------

Tip == chain[Len(chain)].status
Other(s) == IF s = "new" THEN "working" ELSE "new"

OnChain(c, k) == \E i \in 1 .. Len(chain) : chain[i].by = c /\ chain[i].call = k

Continue(c, r) == client' = [client EXCEPT ![c] = r]

\* The command of c ends; all that is left of it is what it has reported.
Report(c, verdict) ==
  /\ told' = [told EXCEPT ![c][client[c].call] = verdict]
  /\ Continue(c, Resting(client[c].call))

Post(c, r) ==
  [status |-> r.op, by |-> c, call |-> r.call, link |-> r.link, attempt |-> r.attempt]

-------------------------------------------------------------------------------
(* The commands *)

\* op "working" is a claim (executing, pull), "new" a release (reclaim, sweep).
Start(c, op) ==
  /\ client[c].pc = "idle"
  /\ client[c].call < MaxCalls
  /\ Continue(c, Reading(op, client[c].call + 1))
  /\ UNCHANGED <<chain, wire, told>>

\* The latest record becomes the link, and the create_item is posted.
PostLinked(c) ==
  LET r == Creating(client[c].op, client[c].call, Len(chain)) IN
  /\ Continue(c, r)
  /\ wire' = wire \cup {Post(c, r)}

\* The head is read.  If it does not fit, the command ends without having written.
\* A claim is pinned to the record it has checked; a release goes on to
\* append_status.
ReadAnswered(c) ==
  LET fits == Tip = Other(client[c].op)
      op   == client[c].op
      n    == client[c].call
  IN
  /\ client[c].pc = "read"
  /\ \/ fits /\ op = "working" /\ PostLinked(c)
     \/ fits /\ op = "new" /\ Continue(c, Linking(op, n)) /\ UNCHANGED wire
     \/ ~fits /\ Continue(c, Resting(n)) /\ UNCHANGED wire
  /\ UNCHANGED <<chain, told>>

\* append_status reads the head again, for the link; what it says is not looked at.
LinkAnswered(c) ==
  /\ client[c].pc = "link"
  /\ PostLinked(c)
  /\ UNCHANGED <<chain, told>>

\* Mutant: the retry goes around append_status, and its read of the head with it.
RetryAppend(c) ==
  LET r == [client[c] EXCEPT !.attempt = @ + 1, !.answer = "none", !.link = Len(chain)] IN
  /\ client[c].pc # "idle"
  /\ client[c].attempt < MaxAttempts
  /\ Continue(c, r)
  /\ wire' = IF r.pc = "create" THEN wire \cup {Post(c, r)} ELSE wire
  /\ UNCHANGED <<chain, told>>

\* Mutant: the attempts are not counted.
RetryForever(c) ==
  /\ client[c].pc # "idle"
  /\ Continue(c, [client[c] EXCEPT !.answer = "none"])
  /\ wire' = IF client[c].pc = "create" THEN wire \cup {Post(c, client[c])} ELSE wire
  /\ UNCHANGED <<chain, told>>

\* Mutant: one attempt too many.
RetryOnceMore(c) ==
  LET r == [client[c] EXCEPT !.attempt = @ + 1, !.answer = "none"] IN
  /\ client[c].pc # "idle"
  /\ client[c].attempt <= MaxAttempts
  /\ Continue(c, r)
  /\ wire' = IF r.pc = "create" THEN wire \cup {Post(c, r)} ELSE wire
  /\ UNCHANGED <<chain, told>>

\* 502, 503 or 504, and attempts left: after a pause the same body is posted
\* again.  The copy posted before may not have arrived (503, the store was
\* busy), may have been handled, or may be handled later (502, 504).
Retry(c) ==
  LET r == [client[c] EXCEPT !.attempt = @ + 1, !.answer = "none"] IN
  /\ client[c].pc # "idle"
  /\ client[c].attempt < MaxAttempts
  /\ Continue(c, r)
  /\ wire' = IF r.pc = "create" THEN wire \cup {Post(c, r)} ELSE wire
  /\ UNCHANGED <<chain, told>>

\* The last attempt failed, or another HTTP error (exit 3), no connection
\* (exit 2), no answer within 30 seconds, or the process was killed.
GiveUp(c) ==
  /\ client[c].pc # "idle"
  /\ Report(c, "failed")
  /\ UNCHANGED <<chain, wire>>

\* Mutant: after a retry, a refusal is taken for the echo of one's own success.
CreateAnsweredLeniently(c) ==
  LET r == client[c] IN
  /\ r.pc = "create"
  /\ r.answer # "none"
  /\ Report(c, CASE r.answer = "ok" \/ r.attempt > 1 -> "ok"
                 [] r.answer = "moved"               -> "lost"
                 [] r.answer = "exists"              -> "failed")
  /\ UNCHANGED <<chain, wire>>

\* tool_safe's answer: a record; HeadMoved (for a claim ClaimLost, exit 8); or
\* any other refusal, a RuntimeError.
CreateAnswered(c) ==
  LET r == client[c] IN
  /\ r.pc = "create"
  /\ r.answer # "none"
  /\ Report(c, CASE r.answer = "ok"     -> "ok"
                 [] r.answer = "moved"  -> "lost"
                 [] r.answer = "exists" -> "failed")
  /\ UNCHANGED <<chain, wire>>

-------------------------------------------------------------------------------
(* The store *)

Awaits(c, req) ==
  /\ client[c].pc = "create"
  /\ client[c].call = req.call
  /\ client[c].attempt = req.attempt

\* create_item: the record is taken if its link is the head (chain_predecessor).
\* A second copy is refused for its link, or because its text is there already;
\* which of the two is the store's affair.  The answer reaches the client only
\* if this is the attempt it is waiting for.
Handle(req) ==
  LET fits == req.link = Len(chain)
      errors == IF OnChain(req.by, req.call) THEN {"moved", "exists"} ELSE {"moved"}
  IN
  /\ req \in wire
  /\ wire' = wire \ {req}
  /\ chain' = IF fits
                THEN Append(chain, [status |-> req.status, by |-> req.by, call |-> req.call])
                ELSE chain
  /\ \E answer \in IF fits THEN {"ok"} ELSE errors :
       client' = IF Awaits(req.by, req)
                   THEN [client EXCEPT ![req.by].answer = answer]
                   ELSE client
  /\ UNCHANGED told

-------------------------------------------------------------------------------

ClientStep(c) ==
  ReadAnswered(c) \/ LinkAnswered(c) \/ Retry(c) \/ GiveUp(c) \/ CreateAnswered(c)

Next ==
  \/ \E c \in Clients : (\E op \in Statuses : Start(c, op)) \/ ClientStep(c)
  \/ \E req \in wire : Handle(req)

Spec == Init /\ [][Next]_vars

\* A process that is not killed goes on: no wait is longer than the timeout.
FairSpec == Spec /\ \A c \in Clients : WF_vars(ClientStep(c))

-------------------------------------------------------------------------------
(* Properties that hold *)

\* A claim stands on `new`, whatever copies of a request arrive late, and although
\* its command may long be over by then: a late copy finds the head it was linked
\* to gone.  (A release may stand on another release: nothing pins it.)
ClaimsFollowNew ==
  \A i \in 2 .. Len(chain) : chain[i].status = "working" => chain[i - 1].status = "new"

\* The commands on the wire do what AtMostOnce promises of a write.
Log == [i \in 1 .. Len(chain) - 1 |-> <<chain[i + 1].by, chain[i + 1].call>>]

Promise == INSTANCE AtMostOnce WITH
  log   <- Log,
  asked <- [c \in Clients |-> client[c].call]

ImplementsAtMostOnce == Promise!Spec

\* Every command comes to its end, however often the store is busy.
CommandsEnd ==
  \A c \in Clients : client[c].pc # "idle" ~> client[c].pc = "idle"

===============================================================================
