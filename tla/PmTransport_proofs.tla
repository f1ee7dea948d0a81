--------------------------- MODULE PmTransport_proofs ---------------------------
(***************************************************************************)
(* Proofs about PmTransport for any clients and any number of attempts and *)
(* commands.                                                               *)
(*                                                                         *)
(* The argument: all copies of a request carry the link the client read    *)
(* once, and a chain only grows.  So the record of a command, if it is on  *)
(* the chain, stands right behind its link, and its other copies fit no    *)
(* more; and once a client has been answered the head has moved past the   *)
(* link, so no late copy can change what was reported.                     *)
(***************************************************************************)
EXTENDS PmTransport, SequenceTheorems, TLAPS

USE NoClientAssumption, AttemptsAssumption, CallsAssumption

\* A link names a record, for a claim a `new` one.
Follows(link, s) ==
  /\ link \in 1 .. Len(chain)
  /\ s = "working" => chain[link].status = "new"

\* A command before it has posted its create_item.
Unposted == {"read", "link"}

\* A client in a command has reported nothing of it, nor of any later one.
ClientKnown(c) ==
  /\ client[c].pc # "idle" => client[c].call >= 1 /\ told[c][client[c].call] = "none"
  /\ \A k \in 1 .. MaxCalls : k > client[c].call => told[c][k] = "none"
  /\ client[c].pc \in Unposted => client[c].answer = "none"
  /\ client[c].pc = "link" => client[c].op = "new"
  /\ client[c].pc = "create" => Follows(client[c].link, client[c].op)
  /\ client[c].pc = "create" /\ client[c].answer # "none" => client[c].link < Len(chain)
  /\ client[c].pc = "create" /\ client[c].answer = "ok" => OnChain(c, client[c].call)

\* A request belongs to a command its client has posted, and to no other place
\* on the chain than the one behind its link.
RequestKnown(r) ==
  /\ Follows(r.link, r.status)
  /\ r.call <= client[r.by].call
  /\ client[r.by].pc \in Unposted => r.call < client[r.by].call
  /\ client[r.by].pc = "create" /\ client[r.by].call = r.call => client[r.by].link = r.link
  /\ \A i \in 1 .. Len(chain) : chain[i].by = r.by /\ chain[i].call = r.call => i = r.link + 1
  /\ told[r.by][r.call] \in {"ok", "lost"} => r.link < Len(chain)

\* So does a record.
RecordKnown(i) ==
  chain[i].by \in Clients =>
    LET c == chain[i].by IN
    /\ chain[i].call <= client[c].call
    /\ client[c].pc \in Unposted => chain[i].call < client[c].call
    /\ client[c].pc = "create" /\ client[c].call = chain[i].call => i = client[c].link + 1

CopiesAgree ==
  \A r, s \in wire : r.by = s.by /\ r.call = s.call => r.link = s.link

IInv ==
  /\ TypeOK
  /\ Len(chain) >= 1
  /\ chain[1].by = NoClient
  /\ ClaimsFollowNew
  /\ \A c \in Clients : ClientKnown(c)
  /\ \A r \in wire : RequestKnown(r)
  /\ \A i \in 1 .. Len(chain) : RecordKnown(i)
  /\ CopiesAgree

-------------------------------------------------------------------------------

LEMMA RecordTypes ==
  /\ \A n \in 0 .. MaxCalls : Resting(n) \in ClientRecord
  /\ \A op \in Statuses, n \in 0 .. MaxCalls : Reading(op, n) \in ClientRecord
  /\ \A op \in Statuses, n \in 0 .. MaxCalls, l \in Nat : Creating(op, n, l) \in ClientRecord
BY DEF Resting, Reading, Creating, ClientRecord, Statuses

LEMMA InitEstablishes == Init => IInv
<1> SUFFICES ASSUME Init PROVE IInv
  OBVIOUS
<1>1. Genesis \in Record /\ Resting(0) \in ClientRecord
  BY RecordTypes DEF Genesis, Record, Statuses
<1>2. TypeOK
  BY <1>1 DEF Init, TypeOK, Verdicts
<1>3. Len(chain) = 1 /\ chain[1] = Genesis
  BY <1>1 DEF Init
<1>4. ClaimsFollowNew /\ chain[1].by = NoClient
  BY <1>3 DEF ClaimsFollowNew, Genesis
<1>5. ASSUME NEW c \in Clients PROVE ClientKnown(c)
  BY DEF ClientKnown, Init, Resting
<1>6. ASSUME NEW i \in 1 .. Len(chain) PROVE RecordKnown(i)
  BY <1>3 DEF RecordKnown, Genesis
<1> QED
  BY <1>2, <1>3, <1>4, <1>5, <1>6 DEF IInv, CopiesAgree, Init

\* One client ends or begins a command, nothing else happens.
LEMMA StartKeeps ==
  ASSUME IInv, NEW c \in Clients, NEW op \in Statuses, Start(c, op)
  PROVE  IInv'
<1> DEFINE r == Reading(op, client[c].call + 1)
<1>1. client[c] \in ClientRecord /\ client[c].call + 1 \in 1 .. MaxCalls
  BY DEF IInv, TypeOK, ClientRecord, Start
<1>2. r \in ClientRecord /\ r.pc = "read" /\ r.pc \in Unposted /\ r.call = client[c].call + 1
  <2>1. client[c].call + 1 \in 0 .. MaxCalls
    BY <1>1
  <2> QED
    BY <2>1, RecordTypes DEF Reading, Unposted
<1>3. \A d \in Clients : client'[d] = IF d = c THEN r ELSE client[d]
  BY DEF IInv, TypeOK, Start, Continue
<1>4. TypeOK'
  BY <1>2 DEF IInv, TypeOK, Start, Continue
<1>6. ASSUME NEW d \in Clients PROVE ClientKnown(d)'
  <2>1. ClientKnown(d)
    BY DEF IInv
  <2>2. CASE d = c
    <3>1. client'[d].pc = "read" /\ client'[d].call = client[c].call + 1
            /\ client'[d].answer = "none"
      BY <1>2, <1>3, <2>2 DEF Reading
    <3> QED
      BY <1>1, <2>1, <2>2, <3>1 DEF ClientKnown, Start, ClientRecord, Unposted
  <2>3. CASE d # c
    BY <1>3, <2>1, <2>3 DEF ClientKnown, Start, Follows, OnChain
  <2> QED
    BY <2>2, <2>3
<1>7. ASSUME NEW q \in wire PROVE RequestKnown(q)'
  <2>1. RequestKnown(q) /\ q \in Request
    BY DEF IInv, TypeOK
  <2>2. CASE q.by = c
    <3>1. client'[q.by].pc \in Unposted /\ client'[q.by].call = client[c].call + 1
      BY <1>2, <1>3, <2>2
    <3> QED
      BY <1>1, <2>1, <2>2, <3>1 DEF RequestKnown, Start, Follows, Request, ClientRecord
  <2>3. CASE q.by # c
    BY <1>3, <2>1, <2>3 DEF RequestKnown, Start, Follows, Request
  <2> QED
    BY <2>2, <2>3
<1>8. ASSUME NEW i \in 1 .. Len(chain) PROVE RecordKnown(i)'
  <2>1. RecordKnown(i) /\ chain[i] \in Record
    BY DEF IInv, TypeOK
  <2>2. CASE chain[i].by = c
    <3>1. client'[chain[i].by].pc \in Unposted /\ client'[chain[i].by].call = client[c].call + 1
      BY <1>2, <1>3, <2>2
    <3> QED
      BY <1>1, <2>1, <2>2, <3>1 DEF RecordKnown, Start, Record, ClientRecord
  <2>3. CASE chain[i].by # c
    BY <1>3, <2>1, <2>3 DEF RecordKnown, Start, Record
  <2> QED
    BY <2>2, <2>3
<1> QED
  BY <1>4, <1>6, <1>7, <1>8 DEF IInv, CopiesAgree, ClaimsFollowNew, Start

LEMMA ReportKeeps ==
  ASSUME IInv, NEW c \in Clients, NEW verdict \in Verdicts,
         client[c].pc # "idle", Report(c, verdict), UNCHANGED <<chain, wire>>,
         verdict \in {"ok", "lost"} => client[c].pc = "create" /\ client[c].answer # "none"
  PROVE  IInv'
<1> DEFINE n == client[c].call
           r == Resting(n)
<1>1. client[c] \in ClientRecord /\ ClientKnown(c) /\ n \in 1 .. MaxCalls
  BY DEF IInv, TypeOK, ClientRecord, ClientKnown
<1>2. r \in ClientRecord /\ r.pc = "idle" /\ r.call = n
  BY <1>1, RecordTypes DEF Resting
<1>3. \A d \in Clients : client'[d] = IF d = c THEN r ELSE client[d]
  BY DEF IInv, TypeOK, Report, Continue
<1>4. \A d \in Clients, k \in 1 .. MaxCalls :
        told'[d][k] = IF d = c /\ k = n THEN verdict ELSE told[d][k]
  BY DEF IInv, TypeOK, Report
<1>5. TypeOK'
  <2>1. client' \in [Clients -> ClientRecord]
    BY <1>2 DEF IInv, TypeOK, Report, Continue
  <2>2. told' \in [Clients -> [1 .. MaxCalls -> Verdicts]]
    BY DEF IInv, TypeOK, Report
  <2> QED
    BY <2>1, <2>2 DEF IInv, TypeOK
<1>6. ASSUME NEW d \in Clients PROVE ClientKnown(d)'
  <2>1. ClientKnown(d) /\ client[d] \in ClientRecord
    BY DEF IInv, TypeOK
  <2>2. CASE d = c
    <3>1. client'[d].pc = "idle" /\ client'[d].call = n
      BY <1>2, <1>3, <2>2
    <3> QED
      BY <1>1, <1>4, <2>2, <3>1 DEF ClientKnown, Unposted
  <2>3. CASE d # c
    <3>1. client'[d] = client[d] /\ \A k \in 1 .. MaxCalls : told'[d][k] = told[d][k]
      BY <1>3, <1>4, <2>3
    <3> QED
      BY <2>1, <3>1 DEF ClientKnown, Follows, OnChain, ClientRecord
  <2> QED
    BY <2>2, <2>3
<1>7. ASSUME NEW q \in wire PROVE RequestKnown(q)'
  <2>1. RequestKnown(q) /\ q \in Request
    BY DEF IInv, TypeOK
  <2>2. CASE q.by = c
    <3>1. client'[q.by].pc = "idle" /\ client'[q.by].call = n
      BY <1>2, <1>3, <2>2
    <3>2. told'[q.by][q.call] = IF q.call = n THEN verdict ELSE told[q.by][q.call]
      BY <1>4, <2>1, <2>2 DEF Request
    <3>3. told'[q.by][q.call] \in {"ok", "lost"} => q.link < Len(chain)
      BY <1>1, <2>1, <2>2, <3>2 DEF RequestKnown, ClientKnown
    <3> QED
      BY <2>1, <2>2, <3>1, <3>3 DEF RequestKnown, Follows, Unposted
  <2>3. CASE q.by # c
    <3>1. client'[q.by] = client[q.by] /\ told'[q.by][q.call] = told[q.by][q.call]
      BY <1>3, <1>4, <2>1, <2>3 DEF Request
    <3> QED
      BY <2>1, <3>1 DEF RequestKnown, Follows
  <2> QED
    BY <2>2, <2>3
<1>8. ASSUME NEW i \in 1 .. Len(chain) PROVE RecordKnown(i)'
  <2>1. RecordKnown(i) /\ chain[i] \in Record
    BY DEF IInv, TypeOK
  <2>2. CASE chain[i].by = c
    <3>1. client'[chain[i].by].pc = "idle" /\ client'[chain[i].by].call = n
      BY <1>2, <1>3, <2>2
    <3> QED
      BY <2>1, <2>2, <3>1 DEF RecordKnown, Unposted
  <2>3. CASE chain[i].by # c
    BY <1>3, <2>1, <2>3 DEF RecordKnown
  <2> QED
    BY <2>2, <2>3
<1> QED
  BY <1>5, <1>6, <1>7, <1>8 DEF IInv, CopiesAgree, ClaimsFollowNew

\* Client c goes on to create_item with link l, and one more copy of its request
\* is on the wire; the copies there are, if any, have the same link.
LEMMA PostKeeps ==
  ASSUME IInv, NEW c \in Clients, NEW r \in ClientRecord,
         r.pc = "create", r.call = client[c].call, r.answer = "none",
         client[c].pc # "idle", Continue(c, r),
         wire' = wire \cup {Post(c, r)}, UNCHANGED <<chain, told>>,
         Follows(r.link, r.op),
         \A q \in wire : q.by = c /\ q.call = r.call => q.link = r.link,
         \A i \in 1 .. Len(chain) :
           chain[i].by = c /\ chain[i].call = r.call => i = r.link + 1
  PROVE  IInv'
<1> DEFINE new == Post(c, r)
<1>1. client[c] \in ClientRecord /\ ClientKnown(c) /\ r.call \in 1 .. MaxCalls
  BY DEF IInv, TypeOK, ClientRecord, ClientKnown
<1>2. new \in Request /\ new.by = c /\ new.call = r.call /\ new.link = r.link
        /\ new.status = r.op
  BY <1>1 DEF Post, Request, ClientRecord
<1>3. \A d \in Clients : client'[d] = IF d = c THEN r ELSE client[d]
  BY DEF IInv, TypeOK, Continue
<1>4. TypeOK'
  BY <1>2 DEF IInv, TypeOK, Continue
<1>5. ASSUME NEW d \in Clients PROVE ClientKnown(d)'
  <2>1. ClientKnown(d)
    BY DEF IInv
  <2>2. CASE d = c
    <3>1. client'[d] = r
      BY <1>3, <2>2
    <3> QED
      BY <1>1, <2>2, <3>1 DEF ClientKnown, Follows
  <2>3. CASE d # c
    BY <1>3, <2>1, <2>3 DEF ClientKnown, Follows, OnChain
  <2> QED
    BY <2>2, <2>3
<1>6. ASSUME NEW q \in wire' PROVE RequestKnown(q)'
  <2>1. CASE q = new
    <3>1. client'[q.by] = r
      BY <1>2, <1>3, <2>1
    <3>2. told'[q.by][q.call] = "none"
      BY <1>1, <1>2, <2>1 DEF ClientKnown
    <3> QED
      BY <1>1, <1>2, <2>1, <3>1, <3>2 DEF RequestKnown, Follows, Unposted
  <2>2. CASE q \in wire
    <3>1. RequestKnown(q) /\ q \in Request
      BY <2>2 DEF IInv, TypeOK
    <3>2. CASE q.by = c
      <4>1. client'[q.by] = r
        BY <1>3, <3>2
      <4> QED
        BY <2>2, <3>1, <3>2, <4>1 DEF RequestKnown, Follows, Unposted
    <3>3. CASE q.by # c
      <4>1. client'[q.by] = client[q.by]
        BY <1>3, <3>1, <3>3 DEF Request
      <4> QED
        BY <3>1, <4>1 DEF RequestKnown, Follows
    <3> QED
      BY <3>2, <3>3
  <2> QED
    BY <2>1, <2>2
<1>7. ASSUME NEW i \in 1 .. Len(chain) PROVE RecordKnown(i)'
  <2>1. RecordKnown(i)
    BY DEF IInv
  <2>2. CASE chain[i].by = c
    <3>1. client'[chain[i].by] = r
      BY <1>3, <2>2
    <3> QED
      BY <2>1, <2>2, <3>1 DEF RecordKnown, Unposted
  <2>3. CASE chain[i].by # c
    BY <1>3, <2>1, <2>3 DEF RecordKnown
  <2> QED
    BY <2>2, <2>3
<1>8. CopiesAgree'
  BY <1>2 DEF IInv, CopiesAgree
<1> QED
  BY <1>4, <1>5, <1>6, <1>7, <1>8 DEF IInv, ClaimsFollowNew

\* The create_item linked to the latest record.
LEMMA PostLinkedKeeps ==
  ASSUME IInv, NEW c \in Clients, client[c].pc \in Unposted,
         PostLinked(c), UNCHANGED <<chain, told>>,
         client[c].op = "working" => Tip = "new"
  PROVE  IInv'
<1> DEFINE n == client[c].call
           r == Creating(client[c].op, n, Len(chain))
<1>1. client[c] \in ClientRecord /\ ClientKnown(c) /\ n \in 1 .. MaxCalls
  BY DEF IInv, TypeOK, ClientRecord, ClientKnown, Unposted
<1>2. Len(chain) \in Nat /\ (client[c].op = "working" => chain[Len(chain)].status = "new")
  BY DEF Tip, IInv, TypeOK
<1>3. r \in ClientRecord
  BY <1>1, <1>2, RecordTypes DEF ClientRecord
<1>4. r.pc = "create" /\ r.call = n /\ r.link = Len(chain) /\ r.op = client[c].op
        /\ r.answer = "none"
  BY DEF Creating
<1>5. Follows(r.link, r.op)
  BY <1>2, <1>4 DEF Follows, IInv
<1>6. ASSUME NEW q \in wire PROVE ~(q.by = c /\ q.call = n)
  <2>1. RequestKnown(q) /\ q.call \in Nat
    BY DEF IInv, TypeOK, Request
  <2> QED
    BY <1>1, <2>1 DEF RequestKnown
<1>7. ASSUME NEW i \in 1 .. Len(chain), chain[i].by = c, chain[i].call = n PROVE FALSE
  <2>1. RecordKnown(i)
    BY DEF IInv
  <2>2. n < n
    BY <1>1, <1>7, <2>1 DEF RecordKnown
  <2> QED
    BY <1>1, <2>2
<1>8. Continue(c, r) /\ wire' = wire \cup {Post(c, r)} /\ client[c].pc # "idle"
  BY DEF PostLinked, Unposted
<1> HIDE DEF r
<1> QED
  BY <1>1, <1>3, <1>4, <1>5, <1>6, <1>7, <1>8, PostKeeps

\* A command that has not posted yet goes on, and posts nothing.
LEMMA UnpostedKeeps ==
  ASSUME IInv, NEW c \in Clients, NEW r \in ClientRecord,
         client[c].pc \in Unposted, r.pc \in Unposted, r.call = client[c].call, r.answer = "none",
         r.pc = "link" => r.op = "new", Continue(c, r), UNCHANGED <<chain, wire, told>>
  PROVE  IInv'
<1>1. \A d \in Clients : client'[d] = IF d = c THEN r ELSE client[d]
  BY DEF IInv, TypeOK, Continue
<1>2. \A d \in Clients :
        /\ client'[d].call = client[d].call
        /\ client'[d].pc \in Unposted <=> client[d].pc \in Unposted
        /\ client'[d].pc = "idle" <=> client[d].pc = "idle"
        /\ client'[d].pc \in Unposted \/ client'[d] = client[d]
        /\ client'[d].pc = "link" => client'[d].op = "new"
        /\ client[d].pc \in Unposted => client[d].answer = "none" /\ client'[d].answer = "none"
  BY <1>1 DEF IInv, ClientKnown, Unposted
<1>3. TypeOK'
  BY DEF IInv, TypeOK, Continue
<1>4. ASSUME NEW d \in Clients PROVE ClientKnown(d)'
  <2>1. ClientKnown(d)
    BY DEF IInv
  <2>2. CASE client'[d] = client[d]
    BY <2>1, <2>2 DEF ClientKnown, Follows, OnChain
  <2>3. CASE client'[d].pc \in Unposted
    <3>1. client'[d].pc \notin {"idle", "create"} /\ client[d].pc # "idle"
      BY <1>2, <2>3 DEF Unposted
    <3> QED
      BY <1>2, <2>1, <2>3, <3>1 DEF ClientKnown
  <2> QED
    BY <1>2, <2>2, <2>3
<1>5. ASSUME NEW q \in wire PROVE RequestKnown(q)'
  <2>1. RequestKnown(q) /\ q.by \in Clients
    BY DEF IInv, TypeOK, Request
  <2>2. CASE client'[q.by] = client[q.by]
    BY <2>1, <2>2 DEF RequestKnown, Follows
  <2>3. CASE client'[q.by].pc \in Unposted
    <3>1. client'[q.by].pc # "create"
      BY <2>3 DEF Unposted
    <3> QED
      BY <1>2, <2>1, <2>3, <3>1 DEF RequestKnown, Follows
  <2> QED
    BY <1>2, <2>1, <2>2, <2>3
<1>6. ASSUME NEW i \in 1 .. Len(chain) PROVE RecordKnown(i)'
  <2>1. RecordKnown(i)
    BY DEF IInv
  <2> SUFFICES ASSUME chain[i].by \in Clients PROVE RecordKnown(i)'
    BY DEF RecordKnown
  <2>2. CASE client'[chain[i].by] = client[chain[i].by]
    BY <2>1, <2>2 DEF RecordKnown
  <2>3. CASE client'[chain[i].by].pc \in Unposted
    <3>1. client'[chain[i].by].pc # "create"
      BY <2>3 DEF Unposted
    <3> QED
      BY <1>2, <2>1, <2>3, <3>1 DEF RecordKnown
  <2> QED
    BY <1>2, <2>2, <2>3
<1> QED
  BY <1>3, <1>4, <1>5, <1>6 DEF IInv, CopiesAgree, ClaimsFollowNew

LEMMA ReadAnsweredKeeps ==
  ASSUME IInv, NEW c \in Clients, ReadAnswered(c)
  PROVE  IInv'
<1> DEFINE n == client[c].call
           op == client[c].op
<1>1. client[c] \in ClientRecord /\ ClientKnown(c) /\ n \in 1 .. MaxCalls
        /\ client[c].pc = "read" /\ client[c].pc \in Unposted
  BY DEF IInv, TypeOK, ClientRecord, ClientKnown, ReadAnswered, Unposted
<1>2. CASE Tip = Other(op) /\ op = "working" /\ PostLinked(c)
  <2>1. Tip = "new" /\ UNCHANGED <<chain, told>>
    BY <1>2 DEF Other, ReadAnswered
  <2> QED
    BY <1>1, <1>2, <2>1, PostLinkedKeeps
<1>3. CASE op = "new" /\ Continue(c, Linking(op, n)) /\ UNCHANGED wire
  <2>1. PICK r : r = Linking(op, n)
    OBVIOUS
  <2>2. r \in ClientRecord /\ r.pc \in Unposted /\ r.call = n /\ r.answer = "none" /\ r.op = "new"
    BY <1>1, <1>3, <2>1, RecordTypes DEF Linking, Reading, Unposted, ClientRecord
  <2>3. Continue(c, r) /\ UNCHANGED <<chain, wire, told>>
    BY <1>3, <2>1 DEF ReadAnswered
  <2> QED
    BY <1>1, <2>2, <2>3, UnpostedKeeps
<1>4. CASE Continue(c, Resting(n)) /\ UNCHANGED wire
  <2>1. told' = [told EXCEPT ![c][n] = "none"]
    BY <1>1 DEF ReadAnswered, ClientKnown, IInv, TypeOK
  <2>2. Report(c, "none") /\ UNCHANGED <<chain, wire>>
    BY <1>4, <2>1 DEF ReadAnswered, Report
  <2> QED
    BY <1>1, <2>2, ReportKeeps DEF Verdicts
<1> QED
  BY <1>2, <1>3, <1>4 DEF ReadAnswered

LEMMA LinkAnsweredKeeps ==
  ASSUME IInv, NEW c \in Clients, LinkAnswered(c)
  PROVE  IInv'
<1>1. client[c].pc = "link" /\ client[c].pc \in Unposted /\ client[c].op = "new"
  BY DEF LinkAnswered, Unposted, IInv, ClientKnown
<1> QED
  BY <1>1, PostLinkedKeeps DEF LinkAnswered

LEMMA RetryKeeps ==
  ASSUME IInv, NEW c \in Clients, Retry(c)
  PROVE  IInv'
<1> DEFINE r == [client[c] EXCEPT !.attempt = @ + 1, !.answer = "none"]
<1>1. client[c] \in ClientRecord /\ ClientKnown(c) /\ client[c].pc # "idle"
        /\ client[c].attempt + 1 \in 1 .. MaxAttempts
  BY DEF IInv, TypeOK, ClientRecord, Retry
<1>2. r \in ClientRecord
  BY <1>1 DEF ClientRecord
<1>3. r.pc = client[c].pc /\ r.call = client[c].call /\ r.link = client[c].link
        /\ r.op = client[c].op /\ r.answer = "none"
  BY <1>1 DEF ClientRecord
<1>4. Continue(c, r) /\ UNCHANGED <<chain, told>>
        /\ wire' = IF r.pc = "create" THEN wire \cup {Post(c, r)} ELSE wire
  BY DEF Retry
<1> HIDE DEF r
<1>5. CASE r.pc = "create"
  <2>1. Follows(r.link, r.op)
    BY <1>1, <1>3, <1>5 DEF ClientKnown
  <2>2. \A q \in wire : q.by = c /\ q.call = r.call => q.link = r.link
    BY <1>3, <1>5 DEF IInv, RequestKnown
  <2>3. \A i \in 1 .. Len(chain) :
          chain[i].by = c /\ chain[i].call = r.call => i = r.link + 1
    BY <1>3, <1>5 DEF IInv, RecordKnown
  <2> QED
    BY <1>1, <1>2, <1>3, <1>4, <1>5, <2>1, <2>2, <2>3, PostKeeps
<1>6. CASE r.pc # "create"
  <2>1. client[c].pc \in Unposted /\ wire' = wire
    BY <1>1, <1>3, <1>4, <1>6 DEF ClientRecord, Unposted
  <2>2. r.pc = "link" => r.op = "new"
    BY <1>1, <1>3 DEF ClientKnown
  <2> QED
    BY <1>2, <1>3, <1>4, <2>1, <2>2, UnpostedKeeps
<1> QED
  BY <1>5, <1>6

LEMMA GiveUpKeeps ==
  ASSUME IInv, NEW c \in Clients, GiveUp(c)
  PROVE  IInv'
BY ReportKeeps DEF GiveUp, Verdicts

LEMMA CreateAnsweredKeeps ==
  ASSUME IInv, NEW c \in Clients, CreateAnswered(c)
  PROVE  IInv'
<1>1. client[c].answer \in {"ok", "moved", "exists"} /\ client[c].pc = "create"
  BY DEF IInv, TypeOK, ClientRecord, CreateAnswered
<1>2. PICK verdict \in {"ok", "lost", "failed"} : Report(c, verdict)
  BY <1>1 DEF CreateAnswered
<1> QED
  BY <1>1, <1>2, ReportKeeps DEF CreateAnswered, Verdicts

\* The answer of the store reaches the attempt it is for, if that still waits.
LEMMA AnswerTypes ==
  ASSUME TypeOK, NEW req \in wire, NEW answer \in {"ok", "moved", "exists"},
         client' = IF Awaits(req.by, req)
                     THEN [client EXCEPT ![req.by].answer = answer] ELSE client
  PROVE  /\ client' \in [Clients -> ClientRecord]
         /\ \A d \in Clients :
              /\ client'[d].pc = client[d].pc /\ client'[d].call = client[d].call
              /\ client'[d].link = client[d].link /\ client'[d].op = client[d].op
              /\ client'[d].answer # client[d].answer =>
                   d = req.by /\ Awaits(req.by, req) /\ client'[d].answer = answer
<1> DEFINE c == req.by
           r == [client[c] EXCEPT !.answer = answer]
<1>1. client \in [Clients -> ClientRecord] /\ client[c] \in ClientRecord /\ c \in Clients
  BY DEF TypeOK, Request
<1>2. r \in ClientRecord
  BY <1>1 DEF ClientRecord
<1>3. /\ r.pc = client[c].pc /\ r.call = client[c].call /\ r.link = client[c].link
      /\ r.op = client[c].op /\ r.answer = answer
  BY <1>1 DEF ClientRecord
<1>4. CASE Awaits(req.by, req)
  <2>1. client' = [client EXCEPT ![c] = r]
    BY <1>4
  <2> HIDE DEF r
  <2>2. \A d \in Clients : client'[d] = IF d = c THEN r ELSE client[d]
    BY <1>1, <2>1
  <2> QED
    BY <1>1, <1>2, <1>3, <1>4, <2>1, <2>2
<1>5. CASE ~Awaits(req.by, req)
  BY <1>1, <1>5
<1> QED
  BY <1>4, <1>5

\* The store takes a request that fits.
LEMMA TakenKeeps ==
  ASSUME IInv, NEW req \in wire, Handle(req), req.link = Len(chain)
  PROVE  IInv'
<1> DEFINE c == req.by
           n == Len(chain)
           rec == [status |-> req.status, by |-> c, call |-> req.call]
<1>1. req \in Request /\ RequestKnown(req) /\ c \in Clients /\ chain \in Seq(Record)
        /\ n \in Nat /\ n >= 1 /\ req.call \in 1 .. MaxCalls
  BY DEF IInv, TypeOK, Request
<1>2. rec \in Record
  BY <1>1 DEF Request, Record
<1>3. chain' = Append(chain, rec) /\ wire' = wire \ {req} /\ told' = told
  BY DEF Handle
<1>4. Len(chain') = n + 1 /\ chain'[n + 1] = rec
        /\ \A i \in 1 .. n : chain'[i] = chain[i]
  BY <1>1, <1>2, <1>3
<1>5. client' = IF Awaits(c, req) THEN [client EXCEPT ![c].answer = "ok"] ELSE client
  BY DEF Handle
<1>6. /\ client' \in [Clients -> ClientRecord]
      /\ \A d \in Clients :
           /\ client'[d].pc = client[d].pc /\ client'[d].call = client[d].call
           /\ client'[d].link = client[d].link /\ client'[d].op = client[d].op
           /\ client'[d].answer # client[d].answer =>
                d = c /\ Awaits(c, req) /\ client'[d].answer = "ok"
  BY <1>1, <1>5, AnswerTypes DEF IInv
<1>7. TypeOK'
  BY <1>1, <1>2, <1>3, <1>6 DEF IInv, TypeOK
<1>8. ASSUME NEW l, NEW s, Follows(l, s)
      PROVE  /\ l \in 1 .. Len(chain') /\ l < Len(chain')
             /\ s = "working" => chain'[l].status = "new"
  BY <1>1, <1>4, <1>8 DEF Follows
<1>9. OnChain(c, req.call)'
  BY <1>1, <1>4 DEF OnChain
<1>10. \A d \in Clients, k \in 1 .. MaxCalls : OnChain(d, k) => OnChain(d, k)'
  BY <1>1, <1>4 DEF OnChain
<1>11. ASSUME NEW d \in Clients PROVE ClientKnown(d)'
  <2>1. ClientKnown(d) /\ client[d] \in ClientRecord
    BY DEF IInv, TypeOK
  <2>2. client'[d].pc = "create" /\ client'[d].answer = "ok" => OnChain(d, client[d].call)'
    <3>1. CASE client'[d].answer = client[d].answer
      <4>1. client[d].pc = "create" => client[d].call \in 1 .. MaxCalls
        BY <2>1 DEF ClientKnown, ClientRecord
      <4> QED
        BY <1>6, <1>10, <2>1, <3>1, <4>1 DEF ClientKnown
    <3>2. CASE client'[d].answer # client[d].answer
      BY <1>6, <1>9, <3>2 DEF Awaits
    <3> QED
      BY <3>1, <3>2
  <2>3. client[d].pc \in Unposted => client'[d].answer = "none"
    BY <1>6, <2>1 DEF ClientKnown, Awaits, Unposted
  <2>4. client[d].pc = "create" =>
          /\ client[d].link \in 1 .. Len(chain') /\ client[d].link < Len(chain')
          /\ client[d].op = "working" => chain'[client[d].link].status = "new"
    <3>1. client[d].pc = "create" => Follows(client[d].link, client[d].op)
      BY <2>1 DEF ClientKnown
    <3> QED
      BY <1>8, <3>1
  <2> QED
    BY <1>3, <1>6, <2>1, <2>2, <2>3, <2>4 DEF ClientKnown, Follows, OnChain, Unposted
<1>12. ASSUME NEW q \in wire PROVE RequestKnown(q)'
  <2>1. RequestKnown(q) /\ q \in Request
    BY DEF IInv, TypeOK
  <2>2. Follows(q.link, q.status)' /\ q.link < Len(chain')
    <3>1. Follows(q.link, q.status)
      BY <2>1 DEF RequestKnown
    <3> QED
      BY <1>8, <3>1 DEF Follows
  <2>3. ASSUME NEW i \in 1 .. Len(chain'), chain'[i].by = q.by, chain'[i].call = q.call
        PROVE  i = q.link + 1
    <3>1. CASE i \in 1 .. n
      BY <1>4, <2>1, <2>3, <3>1 DEF RequestKnown
    <3>2. CASE i = n + 1
      <4>1. q.by = req.by /\ q.call = req.call
        BY <1>4, <2>3, <3>2
      <4> QED
        BY <3>2, <4>1 DEF IInv, CopiesAgree
    <3> QED
      BY <1>1, <1>4, <3>1, <3>2
  <2> QED
    BY <1>3, <1>6, <2>1, <2>2, <2>3 DEF RequestKnown, Request, Follows
<1>13. ASSUME NEW i \in 1 .. Len(chain') PROVE RecordKnown(i)'
  <2>1. CASE i \in 1 .. n
    <3>1. RecordKnown(i)
      BY <2>1 DEF IInv
    <3> QED
      BY <1>4, <1>6, <2>1, <3>1 DEF RecordKnown
  <2>2. CASE i = n + 1
    <3>1. chain'[i].by = c /\ chain'[i].call = req.call
      BY <1>4, <2>2
    <3> QED
      BY <1>1, <1>6, <2>2, <3>1 DEF RecordKnown, RequestKnown
  <2> QED
    BY <1>1, <1>4, <2>1, <2>2
<1>14. ClaimsFollowNew'
  <2>1. ASSUME NEW i \in 2 .. Len(chain'), chain'[i].status = "working"
        PROVE  chain'[i - 1].status = "new"
    <3>1. CASE i \in 2 .. n
      BY <1>4, <2>1, <3>1 DEF IInv, ClaimsFollowNew
    <3>2. CASE i = n + 1
      <4>1. req.status = "working" /\ chain'[i - 1] = chain[req.link]
        BY <1>1, <1>4, <2>1, <3>2
      <4> QED
        BY <1>1, <4>1 DEF RequestKnown, Follows
    <3> QED
      BY <1>1, <1>4, <3>1, <3>2
  <2> QED
    BY <2>1 DEF ClaimsFollowNew
<1>15. CopiesAgree'
  BY <1>3 DEF IInv, CopiesAgree
<1>16. Len(chain') >= 1 /\ chain'[1].by = NoClient
  BY <1>1, <1>4 DEF IInv
<1> QED
  BY <1>3, <1>7, <1>11, <1>12, <1>13, <1>14, <1>15, <1>16 DEF IInv

\* It refuses any other: the head has moved past its link.
LEMMA RefusedKeeps ==
  ASSUME IInv, NEW req \in wire, Handle(req), req.link # Len(chain)
  PROVE  IInv'
<1> DEFINE c == req.by
<1>1. req \in Request /\ RequestKnown(req) /\ c \in Clients /\ Len(chain) \in Nat
  BY DEF IInv, TypeOK, Request
<1>2. req.link < Len(chain)
  BY <1>1 DEF RequestKnown, Follows
<1>3. chain' = chain /\ wire' = wire \ {req} /\ told' = told
  BY DEF Handle
<1>4. PICK answer \in {"moved", "exists"} :
        client' = IF Awaits(c, req) THEN [client EXCEPT ![c].answer = answer] ELSE client
  BY DEF Handle
<1>5. /\ client' \in [Clients -> ClientRecord]
      /\ \A d \in Clients :
           /\ client'[d].pc = client[d].pc /\ client'[d].call = client[d].call
           /\ client'[d].link = client[d].link /\ client'[d].op = client[d].op
           /\ client'[d].answer # client[d].answer =>
                d = c /\ Awaits(c, req) /\ client'[d].answer # "ok"
  BY <1>1, <1>4, AnswerTypes DEF IInv
<1>6. TypeOK'
  BY <1>3, <1>5 DEF IInv, TypeOK
<1>7. ASSUME NEW d \in Clients PROVE ClientKnown(d)'
  <2>1. ClientKnown(d)
    BY DEF IInv
  <2>2. client'[d].answer # client[d].answer => client[d].pc = "create" /\ client[d].link < Len(chain)
    BY <1>1, <1>2, <1>5 DEF Awaits, RequestKnown
  <2>3. client'[d].answer = "ok" => client[d].answer = "ok"
    BY <1>5
  <2> QED
    BY <1>3, <1>5, <2>1, <2>2, <2>3 DEF ClientKnown, Follows, OnChain, Unposted
<1>8. ASSUME NEW q \in wire PROVE RequestKnown(q)'
  <2>1. RequestKnown(q) /\ q.by \in Clients
    BY DEF IInv, TypeOK, Request
  <2> QED
    BY <1>3, <1>5, <2>1 DEF RequestKnown, Follows
<1>9. ASSUME NEW i \in 1 .. Len(chain) PROVE RecordKnown(i)'
  BY <1>3, <1>5 DEF IInv, RecordKnown
<1> QED
  BY <1>3, <1>6, <1>7, <1>8, <1>9 DEF IInv, CopiesAgree, ClaimsFollowNew

LEMMA StepKeeps == IInv /\ [Next]_vars => IInv'
<1> SUFFICES ASSUME IInv, [Next]_vars PROVE IInv'
  OBVIOUS
<1>1. ASSUME NEW c \in Clients, NEW op \in Statuses, Start(c, op) PROVE IInv'
  BY <1>1, StartKeeps
<1>2. ASSUME NEW c \in Clients, ClientStep(c) PROVE IInv'
  BY <1>2, ReadAnsweredKeeps, LinkAnsweredKeeps, RetryKeeps, GiveUpKeeps, CreateAnsweredKeeps DEF ClientStep
<1>3. ASSUME NEW req \in wire, Handle(req) PROVE IInv'
  BY <1>3, TakenKeeps, RefusedKeeps
<1>4. CASE UNCHANGED vars
  BY <1>4 DEF vars, IInv, TypeOK, ClaimsFollowNew, ClientKnown, RequestKnown, RecordKnown,
              CopiesAgree, Follows, OnChain
<1> QED
  BY <1>1, <1>2, <1>3, <1>4 DEF Next

\* The types of the model hold in every state: the counters stay in their bounds,
\* and a request names a command of a client.
THEOREM TypeCorrect == Spec => []TypeOK
<1>1. IInv => TypeOK
  BY DEF IInv
<1> QED
  BY <1>1, InitEstablishes, StepKeeps, PTL DEF Spec

\* A claim stands on `new` for any number of clients and of attempts, however late
\* a copy of a request is handled (_post_payload posts the body that append_status
\* has built once).
THEOREM ClaimsStandOnNew == Spec => []ClaimsFollowNew
<1>1. IInv => ClaimsFollowNew
  BY DEF IInv
<1> QED
  BY <1>1, InitEstablishes, StepKeeps, PTL DEF Spec

-------------------------------------------------------------------------------
(* The refinement of AtMostOnce *)

Asked == [c \in Clients |-> client[c].call]

LEMMA HappenedIsOnChain ==
  ASSUME IInv, NEW c \in Clients, NEW k \in 1 .. MaxCalls
  PROVE  Promise!Happened(c, k) <=> OnChain(c, k)
<1>1. chain \in Seq(Record) /\ chain[1].by # c
  BY DEF IInv, TypeOK
<1>2. Len(Log) = Len(chain) - 1 /\ \A i \in 1 .. Len(chain) - 1 :
        Log[i] = <<chain[i + 1].by, chain[i + 1].call>>
  BY <1>1 DEF Log, IInv
<1>3. Promise!Happened(c, k) => OnChain(c, k)
  BY <1>1, <1>2 DEF Promise!Happened, OnChain
<1>4. ASSUME OnChain(c, k) PROVE Promise!Happened(c, k)
  <2>1. PICK i \in 1 .. Len(chain) : chain[i].by = c /\ chain[i].call = k
    BY <1>4 DEF OnChain
  <2>2. i - 1 \in 1 .. Len(Log) /\ Log[i - 1] = <<c, k>>
    BY <1>1, <1>2, <2>1
  <2> QED
    BY <2>2 DEF Promise!Happened
<1> QED
  BY <1>3, <1>4

LEMMA StartAsks ==
  ASSUME IInv, NEW c \in Clients, NEW op \in Statuses, Start(c, op)
  PROVE  Promise!Ask(c)
<1>1. Asked' = [Asked EXCEPT ![c] = @ + 1]
  BY DEF IInv, TypeOK, Start, Continue, Reading, Asked
<1>2. Asked[c] < MaxCalls /\ Log' = Log /\ told' = told
  BY DEF Start, Asked, Log
<1> QED
  BY <1>1, <1>2 DEF Promise!Ask, Asked

LEMMA ReportTells ==
  ASSUME IInv, NEW c \in Clients, NEW verdict \in {"ok", "lost", "failed"},
         client[c].pc # "idle", Report(c, verdict), UNCHANGED chain,
         verdict = "ok" => OnChain(c, client[c].call)
  PROVE  Promise!Next
<1>1. ClientKnown(c) /\ client[c].call \in 1 .. MaxCalls /\ Asked[c] = client[c].call
  BY DEF IInv, TypeOK, ClientRecord, ClientKnown, Asked
<1>2. Asked' = Asked /\ Log' = Log
  BY DEF IInv, TypeOK, Report, Continue, Resting, Asked, Log
<1>3. told[c][Asked[c]] = "none" /\ told' = [told EXCEPT ![c][Asked[c]] = verdict]
  BY <1>1 DEF ClientKnown, Report
<1>4. verdict = "ok" => Promise!Happened(c, Asked[c])
  BY <1>1, HappenedIsOnChain
<1>5. Promise!Tell(c, verdict) /\ Asked[c] > 0
  BY <1>1, <1>2, <1>3, <1>4 DEF Promise!Tell, Asked
<1> QED
  BY <1>5 DEF Promise!Next, Asked

LEMMA TakenWrites ==
  ASSUME IInv, NEW req \in wire, Handle(req), req.link = Len(chain)
  PROVE  Promise!Write(req.by, req.call)
<1> DEFINE c == req.by
           k == req.call
           n == Len(chain)
           rec == [status |-> req.status, by |-> c, call |-> k]
<1>1. req \in Request /\ RequestKnown(req) /\ c \in Clients /\ k \in 1 .. MaxCalls
        /\ chain \in Seq(Record) /\ n \in Nat /\ n >= 1
  BY DEF IInv, TypeOK, Request
<1>2. k \in 1 .. Asked[c]
  BY <1>1 DEF RequestKnown, Asked, IInv, TypeOK, ClientRecord
<1>3. ~OnChain(c, k)
  BY <1>1 DEF OnChain, RequestKnown
<1>4. told[c][k] \notin {"ok", "lost"}
  BY <1>1 DEF RequestKnown
<1>5. Log' = Append(Log, <<c, k>>)
  <2>1. rec \in Record /\ chain' = Append(chain, rec)
    BY <1>1 DEF Handle, Request, Record
  <2>2. Len(chain') = n + 1 /\ chain'[n + 1] = rec /\ \A i \in 1 .. n : chain'[i] = chain[i]
    BY <1>1, <2>1
  <2> DEFINE W == (Clients \cup {NoClient}) \X (0 .. MaxCalls)
             A == Append(Log, <<c, k>>)
  <2>3. Log = [i \in 1 .. n - 1 |-> <<chain[i + 1].by, chain[i + 1].call>>]
    BY DEF Log
  <2>4. Log' = [i \in 1 .. n |-> <<chain'[i + 1].by, chain'[i + 1].call>>]
    BY <1>1, <2>2 DEF Log
  <2>5. ASSUME NEW i \in 1 .. n - 1 PROVE <<chain[i + 1].by, chain[i + 1].call>> \in W
    <3>1. chain[i + 1] \in Record
      BY <1>1
    <3> QED
      BY <3>1 DEF Record
  <2>6. Log \in Seq(W) /\ Len(Log) = n - 1 /\ <<c, k>> \in W
    BY <1>1, <2>3, <2>5
  <2>7. A \in Seq(W) /\ Len(A) = n /\ A[n] = <<c, k>> /\ \A i \in 1 .. n - 1 : A[i] = Log[i]
    BY <1>1, <2>6, AppendProperties
  <2>8. \A i \in 1 .. n : A[i] = <<chain'[i + 1].by, chain'[i + 1].call>>
    <3>1. ASSUME NEW i \in 1 .. n - 1
          PROVE  A[i] = <<chain'[i + 1].by, chain'[i + 1].call>>
      <4>1. i + 1 \in 1 .. n
        BY <1>1
      <4>2. chain'[i + 1] = chain[i + 1]
        BY <2>2, <4>1
      <4>3. A[i] = Log[i]
        BY <2>7
      <4> QED
        BY <2>3, <4>2, <4>3
    <3>2. A[n] = <<chain'[n + 1].by, chain'[n + 1].call>>
      BY <2>2, <2>7
    <3>3. \A i \in 1 .. n : i \in 1 .. n - 1 \/ i = n
      BY <1>1
    <3> HIDE DEF A, n
    <3> QED
      BY <3>1, <3>2, <3>3
  <2>9. A = [i \in 1 .. Len(A) |-> A[i]]
    BY <2>7
  <2> QED
    BY <2>4, <2>7, <2>8, <2>9
<1>6. Asked' = Asked /\ told' = told
  BY <1>1, AnswerTypes DEF IInv, TypeOK, Handle, Asked
<1> QED
  BY <1>1, <1>2, <1>3, <1>4, <1>5, <1>6, HappenedIsOnChain DEF Promise!Write, Asked

\* Nothing that AtMostOnce speaks of changes.
LEMMA Stutters ==
  ASSUME IInv, UNCHANGED <<chain, told>>,
         \A d \in Clients : client'[d].call = client[d].call
  PROVE  UNCHANGED Promise!vars
BY DEF Promise!vars, Log

LEMMA StepImplements == IInv /\ [Next]_vars => [Promise!Next]_(Promise!vars)
<1> SUFFICES ASSUME IInv, [Next]_vars PROVE [Promise!Next]_(Promise!vars)
  OBVIOUS
<1>1. ASSUME NEW c \in Clients, NEW op \in Statuses, Start(c, op) PROVE Promise!Next
  BY <1>1, StartAsks DEF Promise!Next
<1>2. ASSUME NEW c \in Clients, ReadAnswered(c) PROVE UNCHANGED Promise!vars
  <2>1. PICK r \in {Resting(client[c].call), Linking(client[c].op, client[c].call),
                    Creating(client[c].op, client[c].call, Len(chain))} : Continue(c, r)
    BY <1>2 DEF ReadAnswered, PostLinked
  <2>2. r.call = client[c].call
    BY <2>1 DEF Resting, Linking, Reading, Creating
  <2>3. \A d \in Clients : client'[d].call = client[d].call
    BY <2>1, <2>2 DEF IInv, TypeOK, Continue
  <2> QED
    BY <1>2, <2>3, Stutters DEF ReadAnswered
<1>8. ASSUME NEW c \in Clients, LinkAnswered(c) PROVE UNCHANGED Promise!vars
  <2>1. PICK r : r = Creating(client[c].op, client[c].call, Len(chain))
    OBVIOUS
  <2>2. r.call = client[c].call /\ Continue(c, r)
    BY <1>8, <2>1 DEF LinkAnswered, PostLinked, Creating
  <2>3. \A d \in Clients : client'[d].call = client[d].call
    BY <2>2 DEF IInv, TypeOK, Continue
  <2> QED
    BY <1>8, <2>3, Stutters DEF LinkAnswered
<1>3. ASSUME NEW c \in Clients, Retry(c) PROVE UNCHANGED Promise!vars
  <2>1. \A d \in Clients : client'[d].call = client[d].call
    BY <1>3 DEF IInv, TypeOK, ClientRecord, Retry, Continue
  <2> QED
    BY <1>3, <2>1, Stutters DEF Retry
<1>4. ASSUME NEW c \in Clients, GiveUp(c) PROVE Promise!Next
  BY <1>4, ReportTells DEF GiveUp
<1>5. ASSUME NEW c \in Clients, CreateAnswered(c) PROVE Promise!Next
  <2>1. client[c].answer \in {"ok", "moved", "exists"} /\ client[c].pc = "create"
          /\ ClientKnown(c)
    BY <1>5 DEF IInv, TypeOK, ClientRecord, CreateAnswered
  <2>2. PICK verdict \in {"ok", "lost", "failed"} :
          Report(c, verdict) /\ (verdict = "ok" => client[c].answer = "ok")
    BY <1>5, <2>1 DEF CreateAnswered
  <2> QED
    BY <1>5, <2>1, <2>2, ReportTells DEF CreateAnswered, ClientKnown
<1>6. ASSUME NEW req \in wire, Handle(req) PROVE [Promise!Next]_(Promise!vars)
  <2>1. req.by \in Clients /\ req.call \in 1 .. MaxCalls
    BY DEF IInv, TypeOK, Request
  <2>2. CASE req.link = Len(chain)
    BY <1>6, <2>1, <2>2, TakenWrites DEF Promise!Next
  <2>3. CASE req.link # Len(chain)
    <3>1. PICK answer \in {"moved", "exists"} :
            client' = IF Awaits(req.by, req)
                        THEN [client EXCEPT ![req.by].answer = answer] ELSE client
      BY <1>6, <2>3 DEF Handle
    <3>2. chain' = chain /\ told' = told
      BY <1>6, <2>3 DEF Handle
    <3> QED
      BY <3>1, <3>2, AnswerTypes, Stutters DEF IInv
  <2> QED
    BY <2>2, <2>3
<1>7. CASE UNCHANGED vars
  BY <1>7, Stutters DEF vars
<1> QED
  BY <1>1, <1>2, <1>3, <1>4, <1>5, <1>6, <1>7, <1>8 DEF Next, ClientStep

\* The requests, copies and answers on the wire do what AtMostOnce promises of a
\* write, for any number of clients, attempts and commands: a write happens once
\* or never, a success is one, and what was reported lost never happens later.
THEOREM PromiseKept == Spec => ImplementsAtMostOnce
<1>1. Init => Promise!Init
  <2> SUFFICES ASSUME Init PROVE Promise!Init
    OBVIOUS
  <2>1. Len(chain) = 1
    BY DEF Init
  <2>2. Log = <<>>
    BY <2>1 DEF Log
  <2> QED
    BY <2>2 DEF Init, Promise!Init, Resting
<1> QED
  BY <1>1, InitEstablishes, StepKeeps, StepImplements, PTL
  DEF Spec, ImplementsAtMostOnce, Promise!Spec

===============================================================================
