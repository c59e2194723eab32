-------------------------------- MODULE Mpsi --------------------------------
(***************************************************************************)
(* The multi-party intersection protocol of volePSI/Mpsi.cpp.              *)
(*                                                                         *)
(* Party User_Num-1 is the leader that learns the result, User_Num-2 the   *)
(* sender of the two-party intersection, every other party a client.  All  *)
(* of them run Mpsi_User::run in processes of their own and talk over TCP  *)
(* sockets:                                                                *)
(*                                                                         *)
(*   leader --share--> client --re-encoded share--> sender                 *)
(*   leader --masked encoding of random values--> sender                   *)
(*   leader <--two-party PSI on the decoded values--> sender               *)
(*                                                                         *)
(* A 128-bit block is a set of atoms, each atom a fresh random block, and  *)
(* XOR is symmetric difference: two blocks are equal exactly when they are *)
(* the XOR of the same random blocks, which in the program holds but for a *)
(* probability of 2^-Lambda.  An encoding (an OKVS) is the function from   *)
(* items to what they decode to; decode is linear, so the XOR of encodings *)
(* decodes to the XOR of the blocks.                                       *)
(*                                                                         *)
(* MaxCrashes bounds the failures during the run: processes that die and   *)
(* the leader's own solver that throws in the two-party intersection.      *)
(* FailingEncodes is the set of parties whose encode may return FAIL.      *)
(***************************************************************************)
EXTENDS Integers, FiniteSets, Sequences

CONSTANTS
  User_Num,        \* number of parties
  Items,           \* the items inputs are made of
  Set_Size,        \* items per party
  Thread_Num,      \* threads of the two-party intersection
  MaxCrashes,      \* bound on process deaths and throws of the leader's solver
  FailingEncodes   \* parties whose encode may fail

\* run subtracts 2 from User_Num in unsigned arithmetic.
ASSUME UserAssumption ==
  /\ User_Num \in Nat \ {0, 1}
  /\ FailingEncodes \subseteq 0 .. User_Num - 1
  /\ MaxCrashes \in Nat
  /\ Thread_Num \in Nat

Leader  == User_Num - 1
Sender  == User_Num - 2
Clients == 0 .. User_Num - 3
Dialers == 0 .. User_Num - 2      \* the parties that connect to the leader
Parties == 0 .. User_Num - 1

Atoms  == {"rand", "share", "noise"} \X Parties \X Items
Blocks == SUBSET Atoms

VARIABLES
  inputs,    \* Inputs of every party
  pc,        \* where every party's run is
  accepting, \* the leader's accept loop: the party whose port it listens on
  dialing,   \* the sender's connect loop: the client it connects to
  connected, \* pairs <<listener, dialer>> whose connection is established
  encodeOk,  \* history: whether the encode of a party returned SUCCESS
  toParty,   \* messages from the leader to a party
  toSender,  \* messages from a client to the sender
  toLeader,  \* messages from the sender to the leader
  thread,    \* the leader's share threads: "none", "ready", "sending", "sent"
  share,     \* the Share a client received
  GCT,       \* what the sender received: the leader's and the clients' encodings
  Result,    \* the blocks the sender's items decode to
  Multi_Intersection,
  crashes    \* number of processes that died and of throws of the leader's solver

netVars  == <<toParty, toSender, toLeader>>
connVars == <<accepting, dialing, connected>>
dataVars == <<encodeOk, thread, share, GCT, Result, Multi_Intersection>>
vars == <<inputs, pc, connVars, netVars, dataVars, crashes>>

-----------------------------------------------------------------------------
(* Blocks and encodings. *)

Rand(x)     == <<"rand", Leader, x>>
ShareAt(i, x) == <<"share", i, x>>
Noise(p, x) == <<"noise", p, x>>

\* The XOR of a family of blocks.
XorAll(f) == {a \in Atoms : Cardinality({k \in DOMAIN f : a \in f[k]}) % 2 = 1}

NoEncoding == << >>

\* What encode leaves in its output: it decodes the keys to their values and
\* any other item to noise; a FAIL leaves it all zero.
Encode(p, keys, value, ok) ==
  [x \in Items |-> IF ~ ok THEN {} ELSE IF x \in keys THEN value[x] ELSE {Noise(p, x)}]

\* The random encoding Share[i] the leader draws for client i.
ShareOf(i) == [x \in Items |-> {ShareAt(i, x)}]

\* The leader's own encoding, of the random values Rand_Num.
OwnGCT(ok) == Encode(Leader, inputs[Leader], [x \in Items |-> {Rand(x)}], ok)

LeaderGCTUnmasked_mut(ok) == OwnGCT(ok)

\* The encoding the leader sends: its own, XORed with every client's share.
LeaderGCT(ok) ==
  [x \in Items |->
     XorAll([k \in Clients \cup {Leader} |->
               IF k = Leader THEN OwnGCT(ok)[x] ELSE ShareOf(k)[x]])]

ClientForwards_mut(i, decodedShare, ok) == ShareOf(i)

\* The encoding a client sends: of what its items decode to in its share.
ClientGCT(i, decodedShare, ok) == Encode(i, inputs[i], decodedShare, ok)

\* What the sender's item decodes to in the XOR of all received encodings.
DecodeSum(x) == XorAll([k \in Clients \cup {Leader} |-> GCT[k][x]])

Outcomes(p) == IF p \in FailingEncodes THEN BOOLEAN ELSE {TRUE}

Message(kind, body) == [kind |-> kind, body |-> body]

Alive(p)  == pc[p] # "dead"
Goto(p, l) == pc' = [pc EXCEPT ![p] = l]

Init ==
  /\ inputs \in [Parties -> {s \in SUBSET Items : Cardinality(s) = Set_Size}]
  /\ pc = [p \in Parties |-> IF p = Leader THEN "accept" ELSE "dial"]
  /\ accepting = 0
  /\ dialing = 0
  /\ connected = {}
  /\ encodeOk = [p \in Parties |-> TRUE]
  /\ toParty = [p \in Dialers |-> << >>]
  /\ toSender = [i \in Clients |-> << >>]
  /\ toLeader = << >>
  /\ thread = [p \in Dialers |-> "none"]
  /\ share = [i \in Clients |-> NoEncoding]
  /\ GCT = [k \in Clients \cup {Leader} |-> NoEncoding]
  /\ Result = NoEncoding
  /\ Multi_Intersection = {}
  /\ crashes = 0

-----------------------------------------------------------------------------
(* Connecting.  The leader accepts the parties one after the other, each on *)
(* a port of its own; the others retry until their port is listened on.     *)

Dial(p) ==
  /\ pc[p] = "dial" /\ pc[Leader] = "accept" /\ accepting = p
  /\ <<Leader, p>> \notin connected
  /\ connected' = connected \cup {<<Leader, p>>}
  /\ Goto(p, IF p = Sender THEN "dialClients" ELSE "listen")
  /\ UNCHANGED <<inputs, accepting, dialing, netVars, dataVars, crashes>>

LeaderAcceptOffByOne_mut ==
  /\ pc[Leader] = "accept" /\ <<Leader, accepting>> \in connected
  /\ accepting' = accepting + 1
  /\ IF accepting' = Sender THEN Goto(Leader, "encode") ELSE UNCHANGED pc
  /\ UNCHANGED <<inputs, dialing, connected, netVars, dataVars, crashes>>

LeaderAccept ==
  /\ pc[Leader] = "accept" /\ <<Leader, accepting>> \in connected
  /\ accepting' = accepting + 1
  /\ IF accepting = Sender THEN Goto(Leader, "encode") ELSE UNCHANGED pc
  /\ UNCHANGED <<inputs, dialing, connected, netVars, dataVars, crashes>>

DialClient ==
  /\ pc[Sender] = "dialClients" /\ dialing \in Clients
  /\ pc[dialing] = "listen"
  /\ connected' = connected \cup {<<dialing, Sender>>}
  /\ dialing' = dialing + 1
  /\ UNCHANGED <<inputs, pc, accepting, netVars, dataVars, crashes>>

DialDone ==
  /\ pc[Sender] = "dialClients" /\ dialing \notin Clients
  /\ Goto(Sender, "recvLeader")
  /\ UNCHANGED <<inputs, connVars, netVars, dataVars, crashes>>

ClientAccept(i) ==
  /\ pc[i] = "listen" /\ <<i, Sender>> \in connected
  /\ Goto(i, "recvShare")
  /\ UNCHANGED <<inputs, connVars, netVars, dataVars, crashes>>

-----------------------------------------------------------------------------
(* The leader: encode, mask, and one thread per message. *)

\* The status encode returns is not looked at.
LeaderEncode ==
  /\ pc[Leader] = "encode"
  /\ \E ok \in Outcomes(Leader) : encodeOk' = [encodeOk EXCEPT ![Leader] = ok]
  /\ thread' = [p \in Dialers |-> "ready"]
  /\ Goto(Leader, "share")
  /\ UNCHANGED <<inputs, connVars, netVars, share, GCT, Result,
                 Multi_Intersection, crashes>>

ShareMessageOffByOne_mut(p) ==
  Message("gct", IF p = 0 THEN LeaderGCT(encodeOk[Leader]) ELSE ShareOf(p))

\* The masked encoding goes to the sender, its share to each client.
ShareMessage(p) ==
  Message("gct", IF p = Sender THEN LeaderGCT(encodeOk[Leader]) ELSE ShareOf(p))

ShareSend(p) ==
  /\ pc[Leader] = "share" /\ thread[p] = "ready"
  /\ thread' = [thread EXCEPT ![p] = "sending"]
  /\ toParty' = [toParty EXCEPT ![p] = Append(@, ShareMessage(p))]
  /\ UNCHANGED <<inputs, pc, connVars, toSender, toLeader, encodeOk, share, GCT,
                 Result, Multi_Intersection, crashes>>

\* The send completes, at the earliest when the message is in the socket's
\* buffers, at the latest when it is received.
ShareSent(p) ==
  /\ pc[Leader] = "share" /\ thread[p] = "sending"
  /\ thread' = [thread EXCEPT ![p] = "sent"]
  /\ UNCHANGED <<inputs, pc, connVars, netVars, encodeOk, share, GCT, Result,
                 Multi_Intersection, crashes>>

ShareJoin ==
  /\ pc[Leader] = "share" /\ \A p \in Dialers : thread[p] = "sent"
  /\ Goto(Leader, "psi")
  /\ UNCHANGED <<inputs, connVars, netVars, dataVars, crashes>>

-----------------------------------------------------------------------------
(* A client: decode the share at its items, re-encode, send. *)

ClientRecv(i) ==
  /\ pc[i] = "recvShare" /\ toParty[i] # << >>
  /\ share' = [share EXCEPT ![i] = Head(toParty[i]).body]
  /\ toParty' = [toParty EXCEPT ![i] = Tail(@)]
  /\ Goto(i, "encode")
  /\ UNCHANGED <<inputs, connVars, toSender, toLeader, encodeOk, thread, GCT,
                 Result, Multi_Intersection, crashes>>

ClientEncode(i) ==
  /\ pc[i] = "encode"
  /\ \E ok \in Outcomes(i) :
       /\ encodeOk' = [encodeOk EXCEPT ![i] = ok]
       /\ toSender' = [toSender EXCEPT ![i] =
                         Append(@, Message("gct", ClientGCT(i, share[i], ok)))]
  /\ Goto(i, "sending")
  /\ UNCHANGED <<inputs, connVars, toParty, toLeader, thread, share, GCT, Result,
                 Multi_Intersection, crashes>>

\* The send completes; flush has nothing left to wait for and both sockets
\* are closed.
ClientClose(i) ==
  /\ pc[i] = "sending"
  /\ Goto(i, "done")
  /\ UNCHANGED <<inputs, connVars, netVars, dataVars, crashes>>

-----------------------------------------------------------------------------
(* The sender: the leader's encoding first, then one thread per client. *)

SenderRecvLeader ==
  /\ pc[Sender] = "recvLeader" /\ toParty[Sender] # << >>
  /\ GCT' = [GCT EXCEPT ![Leader] = Head(toParty[Sender]).body]
  /\ toParty' = [toParty EXCEPT ![Sender] = Tail(@)]
  /\ Goto(Sender, "recvClients")
  /\ UNCHANGED <<inputs, connVars, toSender, toLeader, encodeOk, thread, share,
                 Result, Multi_Intersection, crashes>>

SenderRecvClient(i) ==
  /\ pc[Sender] = "recvClients" /\ toSender[i] # << >>
  /\ GCT' = [GCT EXCEPT ![i] = Head(toSender[i]).body]
  /\ toSender' = [toSender EXCEPT ![i] = Tail(@)]
  /\ UNCHANGED <<inputs, pc, connVars, toParty, toLeader, encodeOk, thread, share,
                 Result, Multi_Intersection, crashes>>

\* The threads the sender joins before it adds the encodings up.
AllReceived == \A i \in Clients : GCT[i] # NoEncoding

SenderDecode ==
  /\ pc[Sender] = "recvClients" /\ AllReceived
  /\ Result' = [x \in inputs[Sender] |-> DecodeSum(x)]
  /\ Goto(Sender, "psi")
  /\ UNCHANGED <<inputs, connVars, netVars, encodeOk, thread, share, GCT,
                 Multi_Intersection, crashes>>

-----------------------------------------------------------------------------
(* The two-party intersection, on the socket between leader and sender. *)

LeaderPsiStart ==
  /\ pc[Leader] = "psi"
  /\ toParty' = [toParty EXCEPT ![Sender] = Append(@, Message("oprf", << >>))]
  /\ Goto(Leader, "psiWait")
  /\ UNCHANGED <<inputs, connVars, toSender, toLeader, dataVars, crashes>>

SenderPsiNoRecv_mut ==
  /\ pc[Sender] = "psi"
  /\ toLeader' = Append(toLeader, Message("hashes", {Result[x] : x \in DOMAIN Result}))
  /\ Goto(Sender, "close")
  /\ UNCHANGED <<inputs, connVars, toParty, toSender, dataVars, crashes>>

SenderPsi ==
  /\ pc[Sender] = "psi" /\ toParty[Sender] # << >>
  /\ toParty' = [toParty EXCEPT ![Sender] = Tail(@)]
  /\ toLeader' = Append(toLeader, Message("hashes", {Result[x] : x \in DOMAIN Result}))
  /\ Goto(Sender, "close")
  /\ UNCHANGED <<inputs, connVars, toSender, dataVars, crashes>>

\* The result of the two-party intersection is taken to be right: that is
\* RsPsi's ResultCorrect, under its RegionsSuffice.
LeaderPsiEnd ==
  /\ pc[Leader] = "psiWait" /\ toLeader # << >>
  /\ Multi_Intersection' =
       {x \in inputs[Leader] : {Rand(x)} \in Head(toLeader).body}
  /\ toLeader' = Tail(toLeader)
  /\ Goto(Leader, "close")
  /\ UNCHANGED <<inputs, connVars, toParty, toSender, encodeOk, thread, share, GCT,
                 Result, crashes>>

Close(p) ==
  /\ p \in {Leader, Sender} /\ pc[p] = "close"
  /\ Goto(p, "done")
  /\ UNCHANGED <<inputs, connVars, netVars, dataVars, crashes>>

-----------------------------------------------------------------------------
(* Failures. *)

\* A process dies.  What it sent is still delivered, or is lost, on each of
\* its sockets.
Crash(p) ==
  /\ crashes < MaxCrashes /\ pc[p] \notin {"done", "dead"}
  /\ crashes' = crashes + 1
  /\ Goto(p, "dead")
  /\ \E lost \in SUBSET Dialers :
       toParty' = IF p = Leader
                  THEN [q \in Dialers |-> IF q \in lost THEN << >> ELSE toParty[q]]
                  ELSE toParty
  /\ \E lost \in BOOLEAN :
       /\ toLeader' = IF p = Sender /\ lost THEN << >> ELSE toLeader
       /\ toSender' = IF p \in Clients /\ lost
                      THEN [toSender EXCEPT ![p] = << >>] ELSE toSender
  /\ UNCHANGED <<inputs, connVars, dataVars>>

RecvFailsMainOnly_mut(p) ==
  /\ \/ p \in Clients /\ pc[p] = "recvShare"
     \/ p = Sender /\ pc[p] = "recvLeader"
  /\ toParty[p] = << >> /\ ~ Alive(Leader)
  /\ Goto(p, "dead")
  /\ UNCHANGED <<inputs, connVars, netVars, dataVars, crashes>>

\* A receive on a socket whose other end is gone throws: out of run in the
\* main thread, and into std::terminate in one of its threads.
RecvFails(p) ==
  /\ \/ p \in Clients /\ pc[p] = "recvShare" /\ toParty[p] = << >> /\ ~ Alive(Leader)
     \/ p = Sender /\ pc[p] = "recvLeader" /\ toParty[p] = << >> /\ ~ Alive(Leader)
     \/ /\ p = Sender /\ pc[p] = "recvClients"
        /\ \E i \in Clients : /\ GCT[i] = NoEncoding
                              /\ toSender[i] = << >> /\ ~ Alive(i)
  /\ Goto(p, "dead")
  /\ UNCHANGED <<inputs, connVars, netVars, dataVars, crashes>>

\* So does a send; the leader's share threads have nobody to catch it.
SendFails(p) ==
  /\ \/ p \in Clients /\ pc[p] = "sending" /\ ~ Alive(Sender)
     \/ p = Leader /\ pc[p] = "share"
        /\ \E q \in Dialers : thread[q] = "sending" /\ ~ Alive(q)
  /\ Goto(p, "dead")
  /\ UNCHANGED <<inputs, connVars, netVars, dataVars, crashes>>

LeaderPsiErrorPartial_mut == Multi_Intersection' \in SUBSET inputs[Leader]

\* mIntersection was cleared when the PSI started and not filled since.
PsiErrorResult == Multi_Intersection' = {}

\* when_all_ready keeps the exception of the PSI and nobody asks for it: run
\* goes on as if the PSI had ended.  If the PSI's threads were waiting for the
\* sender's hashes, they are still running when run's scope ends.
LeaderPsiError ==
  /\ pc[Leader] \in {"psi", "psiWait"} /\ toLeader = << >> /\ ~ Alive(Sender)
  /\ PsiErrorResult
  /\ \/ Goto(Leader, "close")
     \/ pc[Leader] = "psiWait" /\ Thread_Num >= 2 /\ Goto(Leader, "closeUnjoined")
  /\ UNCHANGED <<inputs, connVars, netVars, encodeOk, thread, share, GCT, Result,
                 crashes>>

\* The solver below the leader's OPRF throws, before its encoding is sent:
\* the exception is kept like the others, and run closes the sockets.
\* Where Baxos solves with several threads its worker ends the process, which
\* is a Crash.
LeaderSolverThrows ==
  /\ pc[Leader] = "psi" /\ crashes < MaxCrashes
  /\ crashes' = crashes + 1
  /\ PsiErrorResult
  /\ Goto(Leader, "close")
  /\ UNCHANGED <<inputs, connVars, netVars, encodeOk, thread, share, GCT, Result>>

\* The task in run's scope holds threads that were never joined: its
\* destruction calls std::terminate after the sockets are closed.
LeaderUnjoined ==
  /\ pc[Leader] = "closeUnjoined"
  /\ Goto(Leader, "dead")
  /\ UNCHANGED <<inputs, connVars, netVars, dataVars, crashes>>

\* The leader is gone, or has closed its sockets after an error of its own.
SenderPsiError ==
  /\ pc[Sender] = "psi" /\ toParty[Sender] = << >>
  /\ pc[Leader] \in {"dead", "done"}
  /\ Goto(Sender, "close")
  /\ UNCHANGED <<inputs, connVars, netVars, dataVars, crashes>>

-----------------------------------------------------------------------------

Connect == (\E p \in Dialers : Dial(p)) \/ LeaderAccept \/ DialClient \/ DialDone
           \/ (\E i \in Clients : ClientAccept(i))

LeaderStep == LeaderEncode \/ (\E p \in Dialers : ShareSend(p)) \/ ShareJoin
              \/ LeaderPsiStart \/ LeaderPsiEnd \/ LeaderPsiError
              \/ LeaderUnjoined

ClientStep == \E i \in Clients : ClientRecv(i) \/ ClientEncode(i)

SenderStep == SenderRecvLeader \/ (\E i \in Clients : SenderRecvClient(i))
              \/ SenderDecode \/ SenderPsi \/ SenderPsiError

Closing == \E p \in Parties : Close(p) \/ RecvFails(p) \/ SendFails(p)

SendEnds == (\E p \in Dialers : ShareSent(p)) \/ (\E i \in Clients : ClientClose(i))

Next == Connect \/ LeaderStep \/ ClientStep \/ SenderStep \/ Closing \/ SendEnds
        \/ (\E p \in Parties : Crash(p)) \/ LeaderSolverThrows

\* The steps that happen without anybody's help.  A send is only sure to end
\* once the other side has read it, however large the message.
Progress ==
  \/ Connect \/ LeaderStep \/ ClientStep \/ SenderStep \/ Closing
  \/ \E p \in Dialers : toParty[p] = << >> /\ ShareSent(p)
  \/ \E i \in Clients : toSender[i] = << >> /\ ClientClose(i)

Spec == Init /\ [][Next]_vars

FairSpec == Spec /\ WF_vars(Progress)

-----------------------------------------------------------------------------
(* Properties. *)

Encodings == {NoEncoding} \cup [Items -> Blocks]

\* Every variable keeps its type.
TypeOK ==
  /\ inputs \in [Parties -> SUBSET Items]
  /\ pc \in [Parties -> {"accept", "dial", "dialClients", "listen", "encode", "share",
                         "recvShare", "sending", "recvLeader", "recvClients", "psi",
                         "psiWait", "close", "closeUnjoined", "done", "dead"}]
  /\ accepting \in 0 .. User_Num - 1 /\ dialing \in Nat
  /\ connected \subseteq Parties \X Parties
  /\ encodeOk \in [Parties -> BOOLEAN]
  /\ \A p \in Dialers : Len(toParty[p]) <= 2
  /\ \A i \in Clients : Len(toSender[i]) <= 1
  /\ Len(toLeader) <= 1
  /\ thread \in [Dialers -> {"none", "ready", "sending", "sent"}]
  /\ \A i \in Clients : share[i] = NoEncoding \/ share[i] = ShareOf(i)
  /\ DOMAIN GCT = Clients \cup {Leader}
  /\ Multi_Intersection \subseteq Items
  /\ crashes \in 0 .. MaxCrashes

Faulty == crashes > 0 \/ \E p \in Parties : ~ encodeOk[p]

Ideal == INSTANCE MpsiIdeal WITH
  faulty   <- Faulty,
  finished <- pc[Leader] = "done",
  answer   <- IF pc[Leader] = "done" THEN Multi_Intersection ELSE {}

\* The protocol implements the ideal functionality: without a failure the
\* leader reports the intersection, after one it may report nothing.
ImplementsIdeal == Ideal!IdealSpec

\* Whatever fails, and however far the run has got, no item is ever reported
\* that some party does not hold.
NoFalsePositive == Multi_Intersection \subseteq Ideal!Common

\* A party that has closed its sockets leaves nothing unread in them, unless
\* the leader and sender's PSI broke off.
DrainedAtClose ==
  crashes = 0 =>
    /\ \A p \in Dialers : pc[p] = "done" => toParty[p] = << >>
    /\ pc[Sender] = "done" => \A i \in Clients : toSender[i] = << >>
    /\ pc[Leader] = "done" => toLeader = << >>

Connecting == {"accept", "dial", "dialClients", "listen"}

Over(p) == pc[p] \in {"done", "dead"}

\* Without crashes every party's run returns: the connection order, the
\* blocking sends and the receives never wait for each other in a cycle.
EveryoneFinishes == crashes = 0 ~> (crashes > 0 \/ \A p \in Parties : pc[p] = "done")

\* Once every connection is up nobody hangs, even when processes die or the
\* leader's solver throws: a run that was not cut off returns or ends with an
\* exception.
ConnectedRunsEnd ==
  (\A p \in Parties : pc[p] \notin Connecting) ~> (\A p \in Parties : Over(p))

=============================================================================
