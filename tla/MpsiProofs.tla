----------------------------- MODULE MpsiProofs -----------------------------
(***************************************************************************)
(* What is proved of the multi-party protocol, for every number of         *)
(* parties, every items and inputs, and every number of processes that     *)
(* die, of throws of the leader's solver and of encodes that fail: that it *)
(* implements the ideal functionality, and the safety properties that are  *)
(* checked of it.                                                          *)
(*                                                                         *)
(* XorAll is opened up once, in SumIsRand: what the sender's item decodes  *)
(* to is the leader's random block of the item if all have the item and    *)
(* all encodes succeeded, and otherwise no random block of the leader's.   *)
(* The invariant then says what every socket can hold, and that no encode  *)
(* is still to come when its result has been used.                         *)
(***************************************************************************)
EXTENDS Mpsi, FiniteSetTheorems, SequenceTheorems, TLAPS

-----------------------------------------------------------------------------
(* Blocks. *)

\* What the numbers of the parties are.
LEMMA PartyNumbers ==
  /\ Leader \in Parties /\ Sender \in Parties /\ Sender \in Dialers /\ Sender # Leader
  /\ Clients \subseteq Parties /\ Clients \subseteq Dialers /\ Dialers \subseteq Parties
  /\ Leader \notin Clients /\ Sender \notin Clients /\ Leader \notin Dialers
  /\ Parties = Clients \cup {Sender, Leader} /\ Dialers = Clients \cup {Sender}
  /\ Clients \subseteq Nat /\ Sender \in Nat /\ Leader = Sender + 1 /\ User_Num = Sender + 2
BY UserAssumption DEF Leader, Sender, Clients, Dialers, Parties

\* A block's atom that none of the blocks has is not in their XOR.
LEMMA XorNone ==
  ASSUME NEW f, NEW a, \A k \in DOMAIN f : a \notin f[k]
  PROVE  a \notin XorAll(f)
<1>1. {k \in DOMAIN f : a \in f[k]} = {}
  OBVIOUS
<1>2. Cardinality({}) = 0
  BY FS_EmptySet
<1>3. 0 % 2 # 1
  OBVIOUS
<1> QED
  BY <1>1, <1>2, <1>3 DEF XorAll

\* An atom that one of them has is in it.
LEMMA XorOne ==
  ASSUME NEW f, NEW a \in Atoms, NEW j \in DOMAIN f, a \in f[j],
         \A k \in DOMAIN f : a \in f[k] => k = j
  PROVE  a \in XorAll(f)
<1>1. {k \in DOMAIN f : a \in f[k]} = {j}
  OBVIOUS
<1>2. Cardinality({j}) = 1
  BY FS_Singleton
<1>3. 1 % 2 = 1
  OBVIOUS
<1> QED
  BY <1>1, <1>2, <1>3 DEF XorAll

\* An atom that two of them have cancels.
LEMMA XorTwo ==
  ASSUME NEW f, NEW a, NEW j \in DOMAIN f, NEW l \in DOMAIN f, j # l, a \in f[j], a \in f[l],
         \A k \in DOMAIN f : a \in f[k] => k = j \/ k = l
  PROVE  a \notin XorAll(f)
<1>1. {k \in DOMAIN f : a \in f[k]} = {j} \cup {l}
  OBVIOUS
<1>2. IsFiniteSet({j}) /\ Cardinality({j}) = 1 /\ l \notin {j}
  BY FS_Singleton
<1>3. Cardinality({j} \cup {l}) = 2
  <2>1. Cardinality({j} \cup {l}) = Cardinality({j}) + 1
    BY <1>2, FS_AddElement
  <2> QED
    BY <1>2, <2>1
<1>4. 2 % 2 # 1
  OBVIOUS
<1> QED
  BY <1>1, <1>3, <1>4 DEF XorAll

\* The masked encoding: the leader's block, and every client's share.
LEMMA MaskedBlock ==
  ASSUME NEW ok \in BOOLEAN, NEW x \in Items
  PROVE  /\ \A i \in Clients : ShareAt(i, x) \in LeaderGCT(ok)[x]
         /\ \A a \in OwnGCT(ok)[x] : a \in LeaderGCT(ok)[x]
         /\ \A a \in LeaderGCT(ok)[x] :
              a \in OwnGCT(ok)[x] \/ \E i \in Clients : a = ShareAt(i, x)
<1> DEFINE f == [k \in Clients \cup {Leader} |->
                   IF k = Leader THEN OwnGCT(ok)[x] ELSE ShareOf(k)[x]]
<1>1. LeaderGCT(ok)[x] = XorAll(f)
  BY DEF LeaderGCT
<1>2. \A i \in Clients : i # Leader /\ i \in Parties
  BY PartyNumbers
<1>3. DOMAIN f = Clients \cup {Leader} /\ f[Leader] = OwnGCT(ok)[x]
      /\ \A i \in Clients : f[i] = {ShareAt(i, x)}
  BY <1>2 DEF ShareOf
<1>4. OwnGCT(ok)[x] \subseteq {Rand(x), Noise(Leader, x)}
  BY DEF OwnGCT, Encode
<1>5. \A i \in Clients : ShareAt(i, x) \in Atoms /\ ShareAt(i, x) # Rand(x)
                         /\ ShareAt(i, x) # Noise(Leader, x)
  BY <1>2 DEF ShareAt, Rand, Noise, Atoms
<1>6. \A i, j \in Clients : ShareAt(i, x) = ShareAt(j, x) => i = j
  BY DEF ShareAt
<1>7. Rand(x) \in Atoms /\ Noise(Leader, x) \in Atoms
  BY PartyNumbers DEF Rand, Noise, Atoms
<1> HIDE DEF f
<1>8. ASSUME NEW i \in Clients
      PROVE  ShareAt(i, x) \in XorAll(f)
  <2>1. ShareAt(i, x) \in f[i] /\ \A k \in DOMAIN f : ShareAt(i, x) \in f[k] => k = i
    BY <1>3, <1>4, <1>5, <1>6
  <2> QED
    BY <1>3, <1>5, <2>1, XorOne
<1>9. ASSUME NEW a \in OwnGCT(ok)[x]
      PROVE  a \in XorAll(f)
  <2>1. a \in f[Leader] /\ a \in Atoms /\ \A k \in DOMAIN f : a \in f[k] => k = Leader
    BY <1>3, <1>4, <1>5, <1>7
  <2> QED
    BY <1>3, <2>1, XorOne
<1>10. ASSUME NEW a \in XorAll(f)
       PROVE  a \in OwnGCT(ok)[x] \/ \E i \in Clients : a = ShareAt(i, x)
  <2>1. \E k \in DOMAIN f : a \in f[k]
    BY XorNone
  <2> QED
    BY <1>3, <2>1
<1> QED
  BY <1>1, <1>8, <1>9, <1>10

\* What a client's encoding decodes to: its share, or nothing of it.
LEMMA ClientBlock ==
  ASSUME NEW ok \in BOOLEAN, NEW i \in Clients, NEW x \in Items
  PROVE  ClientGCT(i, ShareOf(i), ok)[x]
           = IF ~ ok THEN {} ELSE IF x \in inputs[i] THEN {ShareAt(i, x)} ELSE {Noise(i, x)}
BY DEF ClientGCT, Encode, ShareOf

\* What the sender's item x decodes to when everything has arrived.
Sum(x) ==
  XorAll([k \in Clients \cup {Leader} |->
            IF k = Leader THEN LeaderGCT(encodeOk[Leader])[x]
            ELSE ClientGCT(k, ShareOf(k), encodeOk[k])[x]])

AllOk == encodeOk[Leader] /\ \A i \in Clients : encodeOk[i]

\* The sum is one of the leader's random blocks exactly if no encode failed
\* and the leader and all clients have the item, and then it is the item's.
LEMMA SumIsRand ==
  ASSUME encodeOk \in [Parties -> BOOLEAN], NEW x \in Items, NEW y \in Items
  PROVE  Sum(x) = {Rand(y)} <=>
           y = x /\ AllOk /\ x \in inputs[Leader] /\ \A i \in Clients : x \in inputs[i]
<1> DEFINE f == [k \in Clients \cup {Leader} |->
                   IF k = Leader THEN LeaderGCT(encodeOk[Leader])[x]
                   ELSE ClientGCT(k, ShareOf(k), encodeOk[k])[x]]
           ok == encodeOk[Leader]
<1>1. Sum(x) = XorAll(f)
  BY DEF Sum
<1>2. \A i \in Clients : i # Leader /\ i \in Parties /\ encodeOk[i] \in BOOLEAN
  BY PartyNumbers
<1>3. ok \in BOOLEAN
  BY PartyNumbers
<1>4. DOMAIN f = Clients \cup {Leader} /\ f[Leader] = LeaderGCT(ok)[x]
      /\ \A i \in Clients : f[i] = IF ~ encodeOk[i] THEN {}
                                   ELSE IF x \in inputs[i] THEN {ShareAt(i, x)}
                                   ELSE {Noise(i, x)}
  <2>1. DOMAIN f = Clients \cup {Leader} /\ f[Leader] = LeaderGCT(ok)[x]
        /\ \A i \in Clients : f[i] = ClientGCT(i, ShareOf(i), encodeOk[i])[x]
    BY <1>2
  <2> HIDE DEF f
  <2> QED
    BY <1>2, <2>1, ClientBlock
<1>5. OwnGCT(ok)[x] = IF ~ ok THEN {} ELSE IF x \in inputs[Leader] THEN {Rand(x)}
                      ELSE {Noise(Leader, x)}
  BY DEF OwnGCT, Encode
<1>6. /\ \A i \in Clients : ShareAt(i, x) \in Atoms
      /\ \A u : \A i \in Clients : ShareAt(i, x) # Rand(u)
      /\ \A p : \A i \in Clients : ShareAt(i, x) # Noise(p, x)
      /\ \A i \in Clients, j \in Clients : ShareAt(i, x) = ShareAt(j, x) => i = j
      /\ Rand(x) \in Atoms
      /\ \A p, u : Rand(u) # Noise(p, x)
      /\ \A u : Rand(u) = Rand(x) => u = x
  BY PartyNumbers DEF ShareAt, Rand, Noise, Atoms
<1>7. /\ \A i \in Clients : ShareAt(i, x) \in f[Leader]
      /\ \A a \in OwnGCT(ok)[x] : a \in f[Leader]
      /\ \A a \in f[Leader] : a \in OwnGCT(ok)[x] \/ \E i \in Clients : a = ShareAt(i, x)
  <2> HIDE DEF f, ok
  <2> QED
    BY <1>3, <1>4, MaskedBlock
<1>8. Leader \in Parties /\ Leader \in DOMAIN f /\ \A i \in Clients : i \in DOMAIN f
  BY <1>4, PartyNumbers
<1> HIDE DEF f, ok
<1>9. ASSUME AllOk, x \in inputs[Leader], \A i \in Clients : x \in inputs[i]
      PROVE  XorAll(f) = {Rand(x)}
  <2>1. ok /\ \A i \in Clients : f[i] = {ShareAt(i, x)}
    BY <1>4, <1>9 DEF AllOk, ok
  <2>2. OwnGCT(ok)[x] = {Rand(x)}
    BY <1>5, <1>9, <2>1
  <2>3. Rand(x) \in XorAll(f)
    <3>1. Rand(x) \in f[Leader] /\ Rand(x) \in Atoms
      BY <1>6, <1>7, <2>2, <1>8
    <3>2. \A k \in DOMAIN f : Rand(x) \in f[k] => k = Leader
      BY <1>4, <1>6, <2>1
    <3> QED
      BY <1>8, <3>1, <3>2, XorOne
  <2>4. ASSUME NEW a \in XorAll(f), a # Rand(x)
        PROVE  FALSE
    <3>1. PICK k \in DOMAIN f : a \in f[k]
      BY XorNone
    <3>2. PICK i \in Clients : a = ShareAt(i, x)
      <4>1. CASE k = Leader
        BY <1>7, <2>2, <2>4, <3>1, <4>1
      <4>2. CASE k \in Clients
        <5>1. f[k] = {ShareAt(k, x)}
          BY <2>1, <4>2
        <5> QED
          BY <3>1, <4>2, <5>1
      <4> QED
        BY <1>4, <4>1, <4>2
    <3>3. a \in f[Leader] /\ a \in f[i] /\ i # Leader
      BY <1>2, <1>7, <2>1, <3>2
    <3>4. \A m \in DOMAIN f : a \in f[m] => m = Leader \/ m = i
      BY <1>4, <1>6, <2>1, <3>2
    <3>5. a \notin XorAll(f)
      BY <1>8, <3>3, <3>4, XorTwo
    <3> QED
      BY <2>4, <3>5
  <2> QED
    BY <2>3, <2>4
<1>10. ASSUME XorAll(f) = {Rand(y)}
       PROVE  y = x /\ AllOk /\ x \in inputs[Leader] /\ \A i \in Clients : x \in inputs[i]
  <2>1. PICK k \in DOMAIN f : Rand(y) \in f[k]
    <3>1. Rand(y) \in XorAll(f)
      BY <1>10
    <3> QED
      BY <3>1, XorNone
  <2>2. Rand(y) \in f[Leader]
    BY <1>2, <1>4, <1>6, <2>1
  <2>3. Rand(y) \in OwnGCT(ok)[x]
    BY <1>6, <1>7, <2>2
  <2>4. ok /\ x \in inputs[Leader] /\ y = x
    BY <1>5, <1>6, <1>8, <2>3
  <2>5. ASSUME NEW i \in Clients, ~ (encodeOk[i] /\ x \in inputs[i])
        PROVE  FALSE
    <3>1. ShareAt(i, x) \in f[Leader] /\ ShareAt(i, x) \in Atoms
      BY <1>6, <1>7
    <3>2. \A m \in Clients : ShareAt(i, x) \notin f[m]
      BY <1>2, <1>4, <1>6, <2>5
    <3>3. \A m \in DOMAIN f : ShareAt(i, x) \in f[m] => m = Leader
      BY <1>4, <3>2
    <3>4. ShareAt(i, x) \in XorAll(f)
      BY <1>8, <3>1, <3>3, XorOne
    <3> QED
      BY <1>6, <1>10, <3>4
  <2> QED
    BY <2>4, <2>5 DEF AllOk, ok
<1> QED
  BY <1>1, <1>9, <1>10

-----------------------------------------------------------------------------
(* The invariant. *)

\* The messages: the leader's masked encoding and the first message of the
\* PSI to the sender, a client's share, a client's encoding, the hashes.
G    == Message("gct", LeaderGCT(encodeOk[Leader]))
O    == Message("oprf", << >>)
S(i) == Message("gct", ShareOf(i))
C(i) == Message("gct", ClientGCT(i, ShareOf(i), encodeOk[i]))
H    == Message("hashes", {Sum(x) : x \in inputs[Sender]})

\* A party whose encode is still to come.
LeaderEarly    == pc[Leader] \in {"accept", "encode"}
ClientEarly(i) == pc[i] \in {"dial", "listen", "recvShare", "encode"}

LeaderLabels == {"accept", "encode", "share", "psi", "psiWait", "close", "closeUnjoined",
                 "done", "dead"}
SenderLabels == {"dial", "dialClients", "recvLeader", "recvClients", "psi", "close", "done",
                 "dead"}
ClientLabels == {"dial", "listen", "recvShare", "encode", "sending", "done", "dead"}
Labels       == LeaderLabels \cup SenderLabels \cup ClientLabels

TypeInv ==
  /\ inputs \in [Parties -> SUBSET Items]
  /\ pc \in [Parties -> Labels]
  /\ accepting \in Nat /\ dialing \in Nat /\ connected \subseteq Parties \X Parties
  /\ encodeOk \in [Parties -> BOOLEAN]
  /\ toParty = [p \in Dialers |-> toParty[p]]
  /\ toSender = [i \in Clients |-> toSender[i]]
  /\ thread \in [Dialers -> {"none", "ready", "sending", "sent"}]
  /\ share = [i \in Clients |-> share[i]]
  /\ GCT = [k \in Clients \cup {Leader} |-> GCT[k]]
  /\ crashes \in 0 .. MaxCrashes

\* A process only ends early when something failed before.
DeadInv ==
  crashes = 0 => \A p \in Parties : pc[p] \notin {"dead", "closeUnjoined"}

\* The leader and its threads: what a thread has not sent is in no socket.
LeaderInv ==
  /\ pc[Leader] \in LeaderLabels
  /\ accepting <= Leader /\ (pc[Leader] = "accept" => accepting <= Sender)
  /\ LeaderEarly => encodeOk[Leader] /\ \A p \in Dialers : thread[p] = "none"
  /\ pc[Leader] = "share" => \A p \in Dialers : thread[p] # "none"
  /\ pc[Leader] = "psi" => \A p \in Dialers : thread[p] = "sent"
  /\ \A p \in Dialers : thread[p] \in {"none", "ready"} => toParty[p] = << >>

\* A client's sockets.  What the sender has of it is what it sent.
ClientInv(i) ==
  /\ pc[i] \in ClientLabels
  /\ toParty[i] \in {<< >>, <<S(i)>>}
  /\ toSender[i] \in {<< >>, <<C(i)>>}
  /\ share[i] \in {NoEncoding, ShareOf(i)}
  /\ ClientEarly(i) => encodeOk[i] /\ toSender[i] = << >> /\ GCT[i] = NoEncoding
  /\ pc[i] = "encode" => share[i] = ShareOf(i)
  /\ pc[i] \in {"encode", "sending", "done"} =>
       toParty[i] = << >> /\ thread[i] \in {"sending", "sent"}
  /\ toSender[i] # << >> => GCT[i] = NoEncoding
  /\ GCT[i] \in {NoEncoding, C(i).body}

\* The sender's socket holds the leader's encoding, then the PSI's message.
SenderInv ==
  /\ pc[Sender] \in SenderLabels
  /\ toParty[Sender] \in {<< >>, <<G>>, <<O>>, <<G, O>>}
  /\ pc[Leader] \in {"share", "psi"} => toParty[Sender] \in {<< >>, <<G>>}
  /\ pc[Sender] \in {"dial", "dialClients", "recvLeader"} =>
       /\ toParty[Sender] # <<O>>
       /\ pc[Leader] \in {"share", "psi"} /\ thread[Sender] \in {"sending", "sent"} =>
            toParty[Sender] = <<G>>
  /\ pc[Sender] \in {"recvClients", "psi", "close", "done"} =>
       /\ thread[Sender] \in {"sending", "sent"}
       /\ toParty[Sender] \in {<< >>, <<O>>}
       /\ pc[Leader] \in {"share", "psi"} => toParty[Sender] = << >>
  /\ pc[Sender] = "recvClients" => GCT[Leader] = G.body
  /\ pc[Sender] \in {"psi", "close", "done"} =>
       \A i \in Clients : toSender[i] = << >> /\ ~ ClientEarly(i)
  /\ pc[Sender] = "psi" => Result = [x \in inputs[Sender] |-> Sum(x)]

\* The hashes and what the leader makes of them.
ResultInv ==
  /\ toLeader \in {<< >>, <<H>>}
  /\ toLeader # << >> => /\ pc[Sender] \in {"close", "done", "dead"}
                         /\ ~ LeaderEarly /\ \A i \in Clients : ~ ClientEarly(i)
  /\ crashes = 0 =>
       /\ pc[Sender] \in {"close", "done"} =>
            toParty[Sender] = << >> /\ pc[Leader] \notin {"share", "psi"}
       /\ pc[Leader] \in {"close", "done"} => pc[Sender] \in {"close", "done"}
       /\ toLeader # << >> => pc[Leader] = "psiWait"
  /\ Multi_Intersection \in {{}, Ideal!Common}
  /\ pc[Leader] \in {"close", "done"} => Multi_Intersection = Ideal!Common \/ Faulty

IInv == TypeInv /\ DeadInv /\ LeaderInv /\ (\A i \in Clients : ClientInv(i)) /\ SenderInv
        /\ ResultInv

-----------------------------------------------------------------------------
(* Steps. *)

\* Queues of no, one and two messages.
LEMMA Queues ==
  /\ \A a : <<a>> # << >> /\ Head(<<a>>) = a /\ Tail(<<a>>) = << >> /\ Append(<< >>, a) = <<a>>
  /\ \A a, b : <<a, b>> # << >> /\ Tail(<<a, b>>) = <<b>> /\ Head(<<a, b>>) = a
               /\ Append(<<a>>, b) = <<a, b>>
  /\ \A a, b : <<a>> = <<b>> => a = b
  /\ \A a, b, c : <<a, b>> # <<c>>
<1>2. \A a, b : <<a, b>> # << >> /\ Tail(<<a, b>>) = <<b>> /\ Head(<<a, b>>) = a
                /\ Append(<<a>>, b) = <<a, b>>
  <2> SUFFICES ASSUME NEW a, NEW b
               PROVE  <<a, b>> # << >> /\ Tail(<<a, b>>) = <<b>> /\ Head(<<a, b>>) = a
                      /\ Append(<<a>>, b) = <<a, b>>
    OBVIOUS
  <2>3. Append(<<a>>, b) = <<a, b>>
    <3>1. <<a>> \in Seq({a, b}) /\ <<a, b>> \in Seq({a, b}) /\ Len(<<a, b>>) = 2
      OBVIOUS
    <3>2. Append(<<a>>, b) \in Seq({a, b}) /\ Len(Append(<<a>>, b)) = 2
      OBVIOUS
    <3>3. \A i \in 1 .. 2 : Append(<<a>>, b)[i] = <<a, b>>[i]
      OBVIOUS
    <3> QED
      BY <3>1, <3>2, <3>3, SeqEqual
  <2> QED
    BY <2>3
<1> QED
  BY <1>2

\* What the leader makes of the sums: the intersection if no encode failed.
LEMMA Compared ==
  ASSUME inputs \in [Parties -> SUBSET Items], encodeOk \in [Parties -> BOOLEAN]
  PROVE  {x \in inputs[Leader] : {Rand(x)} \in {Sum(y) : y \in inputs[Sender]}}
           = IF AllOk THEN Ideal!Common ELSE {}
<1>1. inputs[Leader] \subseteq Items /\ inputs[Sender] \subseteq Items
  BY PartyNumbers
<1>2. \A x, y \in Items : Sum(y) = {Rand(x)} <=>
        x = y /\ AllOk /\ y \in inputs[Leader] /\ \A i \in Clients : y \in inputs[i]
  BY SumIsRand
<1>3. \A x \in inputs[Leader] : {Rand(x)} \in {Sum(y) : y \in inputs[Sender]} <=>
        AllOk /\ x \in inputs[Sender] /\ \A i \in Clients : x \in inputs[i]
  BY <1>1, <1>2
<1>4. Ideal!Common = {x \in inputs[Leader] : x \in inputs[Sender]
                                            /\ \A i \in Clients : x \in inputs[i]}
  BY PartyNumbers DEF Ideal!Common
<1> QED
  BY <1>3, <1>4

\* Their lengths.
LEMMA Lengths ==
  /\ Len(<< >>) <= 1 /\ \A a : Len(<<a>>) <= 1
  /\ Len(<< >>) <= 2 /\ \A a : Len(<<a>>) <= 2 /\ \A b : Len(<<a, b>>) <= 2
  OBVIOUS

\* The leader's two messages to the sender are of different kinds.
LEMMA Kinds == G # O
<1>1. G.kind = "gct" /\ O.kind = "oprf"
  BY DEF G, O, Message
<1> QED
  BY <1>1

\* Messages are what they were while inputs and encodes are.
LEMMA Kept ==
  ASSUME inputs' = inputs, encodeOk' = encodeOk
  PROVE  /\ G' = G /\ O' = O /\ H' = H /\ Ideal!Common' = Ideal!Common
         /\ \A i : S(i)' = S(i) /\ C(i)' = C(i)
         /\ \A x : Sum(x)' = Sum(x)
<1>1. \A x : Sum(x)' = Sum(x)
  BY DEF Sum, LeaderGCT, OwnGCT, ClientGCT
<1>2. G' = G /\ O' = O /\ Ideal!Common' = Ideal!Common
  BY DEF G, LeaderGCT, OwnGCT, Ideal!Common
<1>3. H' = H
  BY <1>1 DEF H
<1>4. \A i : S(i)' = S(i) /\ C(i)' = C(i)
  BY DEF C, ClientGCT
<1> QED
  BY <1>1, <1>2, <1>3, <1>4

\* The leader's encode makes no difference to the clients' messages, and a
\* client's encode none to the others'.
LEMMA KeptOthers ==
  ASSUME inputs' = inputs, NEW p \in Parties, \A q \in Parties : q # p => encodeOk'[q] = encodeOk[q]
  PROVE  /\ Ideal!Common' = Ideal!Common /\ O' = O
         /\ \A i : S(i)' = S(i)
         /\ p # Leader => G' = G
         /\ \A i \in Clients : i # p => C(i)' = C(i)
<1>1. Ideal!Common' = Ideal!Common /\ O' = O /\ \A i : S(i)' = S(i)
  BY DEF Ideal!Common
<1>2. ASSUME p # Leader
      PROVE  G' = G
  <2>1. encodeOk'[Leader] = encodeOk[Leader]
    BY <1>2, PartyNumbers
  <2> QED
    BY <2>1 DEF G, LeaderGCT, OwnGCT
<1>3. ASSUME NEW i \in Clients, i # p
      PROVE  C(i)' = C(i)
  <2>1. encodeOk'[i] = encodeOk[i]
    BY <1>3, PartyNumbers
  <2> QED
    BY <2>1 DEF C, ClientGCT
<1> QED
  BY <1>1, <1>2, <1>3

\* A failure stays one.
LEMMA FaultyKept ==
  ASSUME TypeInv, crashes' >= crashes, crashes' \in Nat,
         \A p \in Parties : ~ encodeOk[p] => ~ encodeOk'[p], Faulty
  PROVE  Faulty'
BY DEF Faulty, TypeInv

\* What an observer of the leader's result may see a step do: nothing happens
\* to a result that is reported, and it is reported when the leader closes.
Watched ==
  /\ inputs' = inputs /\ (Faulty => Faulty')
  /\ pc[Leader] = "done" =>
       pc'[Leader] = "done" /\ Multi_Intersection' = Multi_Intersection
  /\ pc[Leader] # "done" /\ pc'[Leader] = "done" =>
       /\ pc[Leader] = "close" /\ Multi_Intersection' = Multi_Intersection
       /\ encodeOk' = encodeOk /\ crashes' = crashes

\* A dial.
LEMMA DialStep ==
  ASSUME IInv, NEW p \in Dialers, Dial(p)
  PROVE  IInv' /\ Watched
<1>1. /\ TypeInv /\ DeadInv /\ LeaderInv /\ SenderInv /\ ResultInv
      /\ \A i \in Clients : ClientInv(i)
  BY DEF IInv
<1>2. UNCHANGED <<inputs, accepting, dialing, encodeOk, toParty, toSender, toLeader, thread,
                  share, GCT, Result, Multi_Intersection, crashes>>
  BY DEF Dial, netVars, dataVars
<1>3. /\ p \in Parties /\ p # Leader /\ pc[p] = "dial"
  BY PartyNumbers DEF Dial
<1>4. /\ \A q \in Parties :
             pc'[q] = IF q = p THEN (IF p = Sender THEN "dialClients" ELSE "listen") ELSE pc[q]
      /\ connected' \subseteq Parties \X Parties
      /\ pc' \in [Parties -> Labels]
  <2>1. \A q \in Parties :
            pc'[q] = IF q = p THEN (IF p = Sender THEN "dialClients" ELSE "listen") ELSE pc[q]
    BY <1>1 DEF Dial, Goto, TypeInv
  <2>2. connected' \subseteq Parties \X Parties
    BY <1>1, PartyNumbers DEF Dial, TypeInv
  <2>3. pc' \in [Parties -> Labels]
    BY <1>1, PartyNumbers DEF Dial, Goto, TypeInv, Labels, SenderLabels, ClientLabels
  <2> QED
    BY <2>1, <2>2, <2>3
<1>5. /\ G' = G /\ O' = O /\ H' = H /\ Ideal!Common' = Ideal!Common
      /\ \A i : S(i)' = S(i) /\ C(i)' = C(i)
      /\ \A x : Sum(x)' = Sum(x)
      /\ Faulty => Faulty'
  BY <1>1, <1>2, Kept, FaultyKept DEF TypeInv
<1>6. TypeInv'
  BY <1>1, <1>2, <1>4 DEF TypeInv
<1>7. DeadInv'
  BY <1>1, <1>2, <1>4 DEF DeadInv
<1>8. LeaderInv'
  BY <1>1, <1>2, <1>4, PartyNumbers DEF LeaderInv, LeaderEarly
<1>9. ASSUME NEW i \in Clients
      PROVE  ClientInv(i)'
  BY <1>1, <1>2, <1>3, <1>4, <1>5, PartyNumbers DEF ClientInv, ClientEarly, ClientLabels
<1>10. SenderInv'
  BY <1>1, <1>2, <1>3, <1>4, <1>5, PartyNumbers DEF SenderInv, ClientEarly, SenderLabels
<1>11. ResultInv'
  BY <1>1, <1>2, <1>3, <1>4, <1>5, PartyNumbers DEF ResultInv, ClientEarly, DeadInv
<1>12. Watched
  BY <1>2, <1>4, <1>5, PartyNumbers DEF Watched
<1> QED
  BY <1>6, <1>7, <1>8, <1>9, <1>10, <1>11, <1>12 DEF IInv

\* An accept.
LEMMA LeaderAcceptStep ==
  ASSUME IInv, LeaderAccept
  PROVE  IInv' /\ Watched
<1>1. /\ TypeInv /\ DeadInv /\ LeaderInv /\ SenderInv /\ ResultInv
      /\ \A i \in Clients : ClientInv(i)
  BY DEF IInv
<1>2. UNCHANGED <<inputs, dialing, connected, encodeOk, toParty, toSender, toLeader, thread,
                  share, GCT, Result, Multi_Intersection, crashes>>
  BY DEF LeaderAccept, netVars, dataVars
<1>3. /\ pc[Leader] = "accept"
  BY DEF LeaderAccept
<1>4. /\ \A q \in Parties :
             pc'[q] = IF q = Leader /\ accepting = Sender THEN "encode" ELSE pc[q]
      /\ accepting' = accepting + 1
      /\ pc' \in [Parties -> Labels]
  <2>1. \A q \in Parties : pc'[q] = IF q = Leader /\ accepting = Sender THEN "encode" ELSE pc[q]
    BY <1>1 DEF LeaderAccept, Goto, TypeInv
  <2>2. accepting' = accepting + 1
    BY DEF LeaderAccept
  <2>3. pc' \in [Parties -> Labels]
    BY <1>1 DEF LeaderAccept, Goto, TypeInv, Labels, ClientLabels
  <2> QED
    BY <2>1, <2>2, <2>3
<1>5. /\ G' = G /\ O' = O /\ H' = H /\ Ideal!Common' = Ideal!Common
      /\ \A i : S(i)' = S(i) /\ C(i)' = C(i)
      /\ \A x : Sum(x)' = Sum(x)
      /\ Faulty => Faulty'
  BY <1>1, <1>2, Kept, FaultyKept DEF TypeInv
<1>6. TypeInv'
  BY <1>1, <1>2, <1>4 DEF TypeInv
<1>7. DeadInv'
  BY <1>1, <1>2, <1>4 DEF DeadInv
<1>8. LeaderInv'
  <2>1. accepting' <= Leader /\ (accepting # Sender => accepting' <= Sender)
    BY <1>1, <1>3, <1>4, PartyNumbers DEF TypeInv, LeaderInv
  <2>2. pc'[Leader] = IF accepting = Sender THEN "encode" ELSE "accept"
    BY <1>3, <1>4, PartyNumbers
  <2>3. encodeOk[Leader] /\ \A p \in Dialers : thread[p] = "none" /\ toParty[p] = << >>
    BY <1>1, <1>3 DEF LeaderInv, LeaderEarly
  <2> QED
    BY <1>2, <2>1, <2>2, <2>3 DEF LeaderInv, LeaderLabels
<1>9. ASSUME NEW i \in Clients
      PROVE  ClientInv(i)'
  BY <1>1, <1>2, <1>4, <1>5, PartyNumbers DEF ClientInv, ClientEarly
<1>10. SenderInv'
  BY <1>1, <1>2, <1>4, <1>5, PartyNumbers, Kinds DEF SenderInv, ClientEarly
<1>11. ResultInv'
  BY <1>1, <1>2, <1>3, <1>4, <1>5, PartyNumbers DEF ResultInv, LeaderEarly
<1>12. Watched
  BY <1>2, <1>3, <1>4, <1>5, PartyNumbers DEF Watched
<1> QED
  BY <1>6, <1>7, <1>8, <1>9, <1>10, <1>11, <1>12 DEF IInv

\* A dial of a client.
LEMMA DialClientStep ==
  ASSUME IInv, DialClient
  PROVE  IInv' /\ Watched
<1>1. /\ TypeInv /\ DeadInv /\ LeaderInv /\ SenderInv /\ ResultInv
      /\ \A i \in Clients : ClientInv(i)
  BY DEF IInv
<1>2. UNCHANGED <<inputs, pc, accepting, encodeOk, toParty, toSender, toLeader, thread, share,
                  GCT, Result, Multi_Intersection, crashes>>
  BY DEF DialClient, netVars, dataVars
<1>4. /\ dialing' = dialing + 1
      /\ connected' \subseteq Parties \X Parties
  <2>1. dialing' = dialing + 1
    BY DEF DialClient
  <2>2. connected' \subseteq Parties \X Parties
    BY <1>1, PartyNumbers DEF DialClient, TypeInv
  <2> QED
    BY <2>1, <2>2
<1>5. /\ G' = G /\ O' = O /\ H' = H /\ Ideal!Common' = Ideal!Common
      /\ \A i : S(i)' = S(i) /\ C(i)' = C(i)
      /\ \A x : Sum(x)' = Sum(x)
      /\ Faulty => Faulty'
  BY <1>1, <1>2, Kept, FaultyKept DEF TypeInv
<1>6. TypeInv'
  BY <1>1, <1>2, <1>4 DEF TypeInv
<1>7. DeadInv'
  BY <1>1, <1>2 DEF DeadInv
<1>8. LeaderInv'
  BY <1>1, <1>2 DEF LeaderInv, LeaderEarly
<1>9. ASSUME NEW i \in Clients
      PROVE  ClientInv(i)'
  BY <1>1, <1>2, <1>5 DEF ClientInv, ClientEarly
<1>10. SenderInv'
  BY <1>1, <1>2, <1>5 DEF SenderInv, ClientEarly
<1>11. ResultInv'
  BY <1>1, <1>2, <1>5 DEF ResultInv, ClientEarly, LeaderEarly
<1>12. Watched
  BY <1>2, <1>5 DEF Watched
<1> QED
  BY <1>6, <1>7, <1>8, <1>9, <1>10, <1>11, <1>12 DEF IInv

\* The end of the dialling.
LEMMA DialDoneStep ==
  ASSUME IInv, DialDone
  PROVE  IInv' /\ Watched
<1>1. /\ TypeInv /\ DeadInv /\ LeaderInv /\ SenderInv /\ ResultInv
      /\ \A i \in Clients : ClientInv(i)
  BY DEF IInv
<1>2. UNCHANGED <<inputs, accepting, dialing, connected, encodeOk, toParty, toSender, toLeader,
                  thread, share, GCT, Result, Multi_Intersection, crashes>>
  BY DEF DialDone, connVars, netVars, dataVars
<1>3. /\ pc[Sender] = "dialClients"
  BY DEF DialDone
<1>4. /\ \A q \in Parties : pc'[q] = IF q = Sender THEN "recvLeader" ELSE pc[q]
      /\ pc' \in [Parties -> Labels]
  <2>1. \A q \in Parties : pc'[q] = IF q = Sender THEN "recvLeader" ELSE pc[q]
    BY <1>1 DEF DialDone, Goto, TypeInv
  <2>2. pc' \in [Parties -> Labels]
    BY <1>1, PartyNumbers DEF DialDone, Goto, TypeInv, Labels, SenderLabels
  <2> QED
    BY <2>1, <2>2
<1>5. /\ G' = G /\ O' = O /\ H' = H /\ Ideal!Common' = Ideal!Common
      /\ \A i : S(i)' = S(i) /\ C(i)' = C(i)
      /\ \A x : Sum(x)' = Sum(x)
      /\ Faulty => Faulty'
  BY <1>1, <1>2, Kept, FaultyKept DEF TypeInv
<1>6. TypeInv'
  BY <1>1, <1>2, <1>4 DEF TypeInv
<1>7. DeadInv'
  BY <1>1, <1>2, <1>4 DEF DeadInv
<1>8. LeaderInv'
  BY <1>1, <1>2, <1>4, PartyNumbers DEF LeaderInv, LeaderEarly
<1>9. ASSUME NEW i \in Clients
      PROVE  ClientInv(i)'
  BY <1>1, <1>2, <1>4, <1>5, PartyNumbers DEF ClientInv, ClientEarly
<1>10. SenderInv'
  BY <1>1, <1>2, <1>3, <1>4, <1>5, PartyNumbers DEF SenderInv, SenderLabels
<1>11. ResultInv'
  BY <1>1, <1>2, <1>3, <1>4, <1>5, PartyNumbers DEF ResultInv
<1>12. Watched
  BY <1>2, <1>4, <1>5, PartyNumbers DEF Watched
<1> QED
  BY <1>6, <1>7, <1>8, <1>9, <1>10, <1>11, <1>12 DEF IInv

\* A client's accept.
LEMMA ClientAcceptStep ==
  ASSUME IInv, NEW c \in Clients, ClientAccept(c)
  PROVE  IInv' /\ Watched
<1>1. /\ TypeInv /\ DeadInv /\ LeaderInv /\ SenderInv /\ ResultInv
      /\ \A i \in Clients : ClientInv(i)
  BY DEF IInv
<1>2. UNCHANGED <<inputs, accepting, dialing, connected, encodeOk, toParty, toSender, toLeader,
                  thread, share, GCT, Result, Multi_Intersection, crashes>>
  BY DEF ClientAccept, connVars, netVars, dataVars
<1>3. /\ pc[c] = "listen"
  BY DEF ClientAccept
<1>4. /\ \A q \in Parties : pc'[q] = IF q = c THEN "recvShare" ELSE pc[q]
      /\ pc' \in [Parties -> Labels]
  <2>1. \A q \in Parties : pc'[q] = IF q = c THEN "recvShare" ELSE pc[q]
    BY <1>1 DEF ClientAccept, Goto, TypeInv
  <2>2. pc' \in [Parties -> Labels]
    BY <1>1 DEF ClientAccept, Goto, TypeInv, Labels, ClientLabels
  <2> QED
    BY <2>1, <2>2
<1>5. /\ G' = G /\ O' = O /\ H' = H /\ Ideal!Common' = Ideal!Common
      /\ \A i : S(i)' = S(i) /\ C(i)' = C(i)
      /\ \A x : Sum(x)' = Sum(x)
      /\ Faulty => Faulty'
  BY <1>1, <1>2, Kept, FaultyKept DEF TypeInv
<1>6. TypeInv'
  BY <1>1, <1>2, <1>4 DEF TypeInv
<1>7. DeadInv'
  BY <1>1, <1>2, <1>4 DEF DeadInv
<1>8. LeaderInv'
  BY <1>1, <1>2, <1>4, PartyNumbers DEF LeaderInv, LeaderEarly
<1>9. ASSUME NEW i \in Clients
      PROVE  ClientInv(i)'
  BY <1>1, <1>2, <1>3, <1>4, <1>5, PartyNumbers DEF ClientInv, ClientEarly, ClientLabels
<1>10. SenderInv'
  BY <1>1, <1>2, <1>3, <1>4, <1>5, PartyNumbers DEF SenderInv, ClientEarly
<1>11. ResultInv'
  <2>1. pc'[Sender] = pc[Sender] /\ pc'[Leader] = pc[Leader]
        /\ \A i \in Clients : ~ ClientEarly(i) => pc'[i] = pc[i]
    BY <1>3, <1>4, PartyNumbers DEF ClientEarly
  <2> QED
    BY <1>1, <1>2, <1>5, <2>1 DEF ResultInv, ClientEarly, LeaderEarly
<1>12. Watched
  BY <1>2, <1>4, <1>5, PartyNumbers DEF Watched
<1> QED
  BY <1>6, <1>7, <1>8, <1>9, <1>10, <1>11, <1>12 DEF IInv

\* The leader's encode.
LEMMA LeaderEncodeStep ==
  ASSUME IInv, LeaderEncode
  PROVE  IInv' /\ Watched
<1>1. /\ TypeInv /\ DeadInv /\ LeaderInv /\ SenderInv /\ ResultInv
      /\ \A i \in Clients : ClientInv(i)
  BY DEF IInv
<1>2. UNCHANGED <<inputs, accepting, dialing, connected, toParty, toSender, toLeader, share,
                  GCT, Result, Multi_Intersection, crashes>>
  BY DEF LeaderEncode, connVars, netVars
<1>3. /\ pc[Leader] = "encode"
  BY DEF LeaderEncode
<1>4. /\ \A q \in Parties : pc'[q] = IF q = Leader THEN "share" ELSE pc[q]
      /\ encodeOk' \in [Parties -> BOOLEAN]
      /\ \A q \in Parties : q # Leader => encodeOk'[q] = encodeOk[q]
      /\ \A q \in Dialers : thread'[q] = "ready"
      /\ pc' \in [Parties -> Labels]
      /\ thread' \in [Dialers -> {"none", "ready", "sending", "sent"}]
  <2>1. \A q \in Parties : pc'[q] = IF q = Leader THEN "share" ELSE pc[q]
    BY <1>1 DEF LeaderEncode, Goto, TypeInv
  <2>2. encodeOk' \in [Parties -> BOOLEAN]
        /\ \A q \in Parties : q # Leader => encodeOk'[q] = encodeOk[q]
    BY <1>1 DEF LeaderEncode, Outcomes, TypeInv
  <2>3. \A q \in Dialers : thread'[q] = "ready"
    BY DEF LeaderEncode
  <2>4. pc' \in [Parties -> Labels]
    BY <1>1, PartyNumbers DEF LeaderEncode, Goto, TypeInv, Labels, LeaderLabels
  <2>5. thread' \in [Dialers -> {"none", "ready", "sending", "sent"}]
    BY DEF LeaderEncode
  <2> QED
    BY <2>1, <2>2, <2>3, <2>4, <2>5
<1>5. /\ Ideal!Common' = Ideal!Common /\ O' = O /\ \A i : S(i)' = S(i)
      /\ \A i \in Clients : C(i)' = C(i)
      /\ Faulty => Faulty'
  <2>1. encodeOk[Leader]
    BY <1>1, <1>3 DEF LeaderInv, LeaderEarly
  <2>2. Faulty => Faulty'
    BY <1>1, <1>2, <1>4, <2>1, FaultyKept DEF TypeInv
  <2> QED
    BY <1>2, <1>4, <2>2, KeptOthers, PartyNumbers
<1>6. TypeInv'
  BY <1>1, <1>2, <1>4 DEF TypeInv
<1>7. DeadInv'
  BY <1>1, <1>2, <1>4 DEF DeadInv
<1>8. LeaderInv'
  BY <1>1, <1>2, <1>3, <1>4, PartyNumbers DEF LeaderInv, LeaderEarly, LeaderLabels
<1>9. ASSUME NEW i \in Clients
      PROVE  ClientInv(i)'
  <2>1. ClientInv(i) /\ thread[i] = "none" /\ i # Leader /\ i \in Dialers /\ i \in Parties
    BY <1>1, <1>3, PartyNumbers DEF LeaderInv, LeaderEarly
  <2>2. pc'[i] = pc[i] /\ encodeOk'[i] = encodeOk[i]
    BY <1>4, <2>1
  <2> QED
    BY <1>2, <1>5, <2>1, <2>2 DEF ClientInv, ClientEarly
<1>10. SenderInv'
  <2>1. /\ pc[Sender] \in {"dial", "dialClients", "recvLeader", "dead"}
        /\ toParty[Sender] = << >> /\ thread'[Sender] = "ready"
    BY <1>1, <1>3, <1>4, PartyNumbers DEF SenderInv, SenderLabels, LeaderInv, LeaderEarly
  <2>2. pc'[Sender] = pc[Sender]
    BY <1>4, PartyNumbers
  <2> QED
    BY <1>2, <2>1, <2>2 DEF SenderInv, SenderLabels
<1>11. ResultInv'
  <2>1. toLeader = << >> /\ toParty[Sender] = << >>
        /\ pc[Sender] \in {"dial", "dialClients", "recvLeader", "dead"}
    BY <1>1, <1>3, PartyNumbers DEF ResultInv, SenderInv, SenderLabels, LeaderInv, LeaderEarly
  <2>2. pc'[Sender] = pc[Sender] /\ pc'[Leader] = "share"
    BY <1>4, PartyNumbers
  <2> QED
    BY <1>1, <1>2, <1>5, <2>1, <2>2 DEF ResultInv
<1>12. Watched
  BY <1>2, <1>3, <1>4, <1>5, PartyNumbers DEF Watched
<1> QED
  BY <1>6, <1>7, <1>8, <1>9, <1>10, <1>11, <1>12 DEF IInv

\* A share is sent.
LEMMA ShareSendStep ==
  ASSUME IInv, NEW p \in Dialers, ShareSend(p)
  PROVE  IInv' /\ Watched
<1>1. /\ TypeInv /\ DeadInv /\ LeaderInv /\ SenderInv /\ ResultInv
      /\ \A i \in Clients : ClientInv(i)
  BY DEF IInv
<1>2. UNCHANGED <<inputs, pc, accepting, dialing, connected, encodeOk, toSender, toLeader,
                  share, GCT, Result, Multi_Intersection, crashes>>
  BY DEF ShareSend, connVars
<1>3. /\ pc[Leader] = "share" /\ thread[p] = "ready"
  BY DEF ShareSend
<1>4. /\ \A q \in Dialers : thread'[q] = IF q = p THEN "sending" ELSE thread[q]
      /\ \A q \in Dialers : toParty'[q]
             = IF q = p THEN Append(toParty[q], IF p = Sender THEN G ELSE S(p)) ELSE toParty[q]
      /\ thread' \in [Dialers -> {"none", "ready", "sending", "sent"}]
      /\ toParty' = [q \in Dialers |-> toParty'[q]]
  <2>1. \A q \in Dialers : thread'[q] = IF q = p THEN "sending" ELSE thread[q]
    BY <1>1 DEF ShareSend, TypeInv
  <2>2. \A q \in Dialers : toParty'[q]
            = IF q = p THEN Append(toParty[q], IF p = Sender THEN G ELSE S(p)) ELSE toParty[q]
    BY <1>1 DEF ShareSend, ShareMessage, G, S, TypeInv
  <2>3. thread' \in [Dialers -> {"none", "ready", "sending", "sent"}]
    BY <1>1 DEF ShareSend, TypeInv
  <2>4. toParty' = [q \in Dialers |-> toParty'[q]]
    BY <1>1 DEF ShareSend, TypeInv
  <2> QED
    BY <2>1, <2>2, <2>3, <2>4
<1>5. /\ G' = G /\ O' = O /\ H' = H /\ Ideal!Common' = Ideal!Common
      /\ \A i : S(i)' = S(i) /\ C(i)' = C(i)
      /\ \A x : Sum(x)' = Sum(x)
      /\ Faulty => Faulty'
  BY <1>1, <1>2, Kept, FaultyKept DEF TypeInv
<1>6. TypeInv'
  BY <1>1, <1>2, <1>4 DEF TypeInv
<1>7. DeadInv'
  BY <1>1, <1>2 DEF DeadInv
<1>8. LeaderInv'
  <2>1. ASSUME NEW q \in Dialers
        PROVE  thread'[q] # "none" /\ (thread'[q] \in {"none", "ready"} => toParty'[q] = << >>)
    BY <1>1, <1>3, <1>4 DEF LeaderInv
  <2> QED
    BY <1>1, <1>2, <1>3, <2>1 DEF LeaderInv, LeaderEarly
<1>9. ASSUME NEW i \in Clients
      PROVE  ClientInv(i)'
  <2>1. ClientInv(i) /\ i # Sender /\ i \in Dialers
    BY <1>1, PartyNumbers
  <2>2. CASE i = p
    <3>1. toParty[i] = << >> /\ pc[i] \notin {"encode", "sending", "done"}
      BY <1>1, <1>3, <2>2 DEF LeaderInv, ClientInv
    <3>2. toParty'[i] = <<S(i)>>
      BY <1>4, <2>1, <2>2, <3>1
    <3> QED
      BY <1>2, <1>5, <2>1, <3>1, <3>2 DEF ClientInv, ClientEarly
  <2>3. CASE i # p
    <3>1. toParty'[i] = toParty[i] /\ thread'[i] = thread[i]
      BY <1>4, <2>1, <2>3
    <3> QED
      BY <1>2, <1>5, <2>1, <3>1 DEF ClientInv, ClientEarly
  <2> QED
    BY <2>2, <2>3
<1>10. SenderInv'
  <2>1. CASE p = Sender
    <3>1. toParty[Sender] = << >> /\ pc[Sender] \in {"dial", "dialClients", "recvLeader", "dead"}
      BY <1>1, <1>3, <2>1 DEF LeaderInv, SenderInv, SenderLabels
    <3>2. toParty'[Sender] = <<G>> /\ <<G>> # <<O>>
      BY <1>4, <2>1, <3>1, Kinds
    <3> QED
      BY <1>2, <1>5, <3>1, <3>2 DEF SenderInv, SenderLabels
  <2>2. CASE p # Sender
    <3>1. toParty'[Sender] = toParty[Sender] /\ thread'[Sender] = thread[Sender]
      BY <1>4, <2>2, PartyNumbers
    <3> QED
      BY <1>1, <1>2, <1>5, <3>1 DEF SenderInv, ClientEarly
  <2> QED
    BY <2>1, <2>2
<1>11. ResultInv'
  BY <1>1, <1>2, <1>3, <1>5 DEF ResultInv, ClientEarly, LeaderEarly
<1>12. Watched
  BY <1>2, <1>5 DEF Watched
<1> QED
  BY <1>6, <1>7, <1>8, <1>9, <1>10, <1>11, <1>12 DEF IInv

\* A send of a share ends.
LEMMA ShareSentStep ==
  ASSUME IInv, NEW p \in Dialers, ShareSent(p)
  PROVE  IInv' /\ Watched
<1>1. /\ TypeInv /\ DeadInv /\ LeaderInv /\ SenderInv /\ ResultInv
      /\ \A i \in Clients : ClientInv(i)
  BY DEF IInv
<1>2. UNCHANGED <<inputs, pc, accepting, dialing, connected, encodeOk, toParty, toSender,
                  toLeader, share, GCT, Result, Multi_Intersection, crashes>>
  BY DEF ShareSent, connVars, netVars
<1>3. /\ pc[Leader] = "share" /\ thread[p] = "sending"
  BY DEF ShareSent
<1>4. /\ \A q \in Dialers : thread'[q] = IF q = p THEN "sent" ELSE thread[q]
      /\ thread' \in [Dialers -> {"none", "ready", "sending", "sent"}]
  <2>1. \A q \in Dialers : thread'[q] = IF q = p THEN "sent" ELSE thread[q]
    BY <1>1 DEF ShareSent, TypeInv
  <2>2. thread' \in [Dialers -> {"none", "ready", "sending", "sent"}]
    BY <1>1 DEF ShareSent, TypeInv
  <2> QED
    BY <2>1, <2>2
<1>5. /\ G' = G /\ O' = O /\ H' = H /\ Ideal!Common' = Ideal!Common
      /\ \A i : S(i)' = S(i) /\ C(i)' = C(i)
      /\ \A x : Sum(x)' = Sum(x)
      /\ Faulty => Faulty'
  BY <1>1, <1>2, Kept, FaultyKept DEF TypeInv
<1>6. TypeInv'
  BY <1>1, <1>2, <1>4 DEF TypeInv
<1>7. DeadInv'
  BY <1>1, <1>2 DEF DeadInv
<1>8. LeaderInv'
  <2>1. ASSUME NEW q \in Dialers
        PROVE  thread'[q] # "none" /\ (thread'[q] \in {"none", "ready"} => toParty'[q] = << >>)
    BY <1>1, <1>2, <1>3, <1>4 DEF LeaderInv
  <2> QED
    BY <1>1, <1>2, <1>3, <2>1 DEF LeaderInv, LeaderEarly
<1>9. ASSUME NEW i \in Clients
      PROVE  ClientInv(i)'
  BY <1>1, <1>2, <1>4, <1>5, PartyNumbers DEF ClientInv, ClientEarly
<1>10. SenderInv'
  BY <1>1, <1>2, <1>3, <1>4, <1>5, PartyNumbers DEF SenderInv, ClientEarly
<1>11. ResultInv'
  BY <1>1, <1>2, <1>5 DEF ResultInv, ClientEarly, LeaderEarly
<1>12. Watched
  BY <1>2, <1>5 DEF Watched
<1> QED
  BY <1>6, <1>7, <1>8, <1>9, <1>10, <1>11, <1>12 DEF IInv

\* The threads are joined.
LEMMA ShareJoinStep ==
  ASSUME IInv, ShareJoin
  PROVE  IInv' /\ Watched
<1>1. /\ TypeInv /\ DeadInv /\ LeaderInv /\ SenderInv /\ ResultInv
      /\ \A i \in Clients : ClientInv(i)
  BY DEF IInv
<1>2. UNCHANGED <<inputs, accepting, dialing, connected, encodeOk, toParty, toSender, toLeader,
                  thread, share, GCT, Result, Multi_Intersection, crashes>>
  BY DEF ShareJoin, connVars, netVars, dataVars
<1>3. /\ pc[Leader] = "share" /\ \A p \in Dialers : thread[p] = "sent"
  BY DEF ShareJoin
<1>4. /\ \A q \in Parties : pc'[q] = IF q = Leader THEN "psi" ELSE pc[q]
      /\ pc' \in [Parties -> Labels]
  <2>1. \A q \in Parties : pc'[q] = IF q = Leader THEN "psi" ELSE pc[q]
    BY <1>1 DEF ShareJoin, Goto, TypeInv
  <2>2. pc' \in [Parties -> Labels]
    BY <1>1, PartyNumbers DEF ShareJoin, Goto, TypeInv, Labels, SenderLabels
  <2> QED
    BY <2>1, <2>2
<1>5. /\ G' = G /\ O' = O /\ H' = H /\ Ideal!Common' = Ideal!Common
      /\ \A i : S(i)' = S(i) /\ C(i)' = C(i)
      /\ \A x : Sum(x)' = Sum(x)
      /\ Faulty => Faulty'
  BY <1>1, <1>2, Kept, FaultyKept DEF TypeInv
<1>6. TypeInv'
  BY <1>1, <1>2, <1>4 DEF TypeInv
<1>7. DeadInv'
  BY <1>1, <1>2, <1>4 DEF DeadInv
<1>8. LeaderInv'
  BY <1>1, <1>2, <1>3, <1>4 DEF TypeInv, LeaderInv, LeaderEarly, LeaderLabels
<1>9. ASSUME NEW i \in Clients
      PROVE  ClientInv(i)'
  BY <1>1, <1>2, <1>4, <1>5, PartyNumbers DEF ClientInv, ClientEarly
<1>10. SenderInv'
  BY <1>1, <1>2, <1>3, <1>4, <1>5, PartyNumbers DEF SenderInv, ClientEarly, ClientInv
<1>11. ResultInv'
  BY <1>1, <1>2, <1>3, <1>4, <1>5, PartyNumbers DEF ResultInv, ClientEarly, LeaderEarly
<1>12. Watched
  BY <1>2, <1>3, <1>4, <1>5, PartyNumbers DEF Watched
<1> QED
  BY <1>6, <1>7, <1>8, <1>9, <1>10, <1>11, <1>12 DEF IInv

\* A client receives its share.
LEMMA ClientRecvStep ==
  ASSUME IInv, NEW c \in Clients, ClientRecv(c)
  PROVE  IInv' /\ Watched
<1>1. /\ TypeInv /\ DeadInv /\ LeaderInv /\ SenderInv /\ ResultInv
      /\ \A i \in Clients : ClientInv(i)
  BY DEF IInv
<1>2. UNCHANGED <<inputs, accepting, dialing, connected, encodeOk, toSender, toLeader, thread,
                  GCT, Result, Multi_Intersection, crashes>>
  BY DEF ClientRecv, connVars
<1>3. /\ pc[c] = "recvShare" /\ toParty[c] # << >>
  BY DEF ClientRecv
<1>4. /\ \A q \in Parties : pc'[q] = IF q = c THEN "encode" ELSE pc[q]
      /\ \A q \in Clients : share'[q] = IF q = c THEN Head(toParty[q]).body ELSE share[q]
      /\ \A q \in Dialers : toParty'[q] = IF q = c THEN Tail(toParty[q]) ELSE toParty[q]
      /\ pc' \in [Parties -> Labels]
      /\ share' = [q \in Clients |-> share'[q]]
      /\ toParty' = [q \in Dialers |-> toParty'[q]]
  <2>1. \A q \in Parties : pc'[q] = IF q = c THEN "encode" ELSE pc[q]
    BY <1>1 DEF ClientRecv, Goto, TypeInv
  <2>2. \A q \in Clients : share'[q] = IF q = c THEN Head(toParty[q]).body ELSE share[q]
    BY <1>1 DEF ClientRecv, TypeInv
  <2>3. \A q \in Dialers : toParty'[q] = IF q = c THEN Tail(toParty[q]) ELSE toParty[q]
    BY <1>1 DEF ClientRecv, TypeInv
  <2>4. pc' \in [Parties -> Labels]
    BY <1>1, PartyNumbers DEF ClientRecv, Goto, TypeInv, Labels, ClientLabels
  <2>5. share' = [q \in Clients |-> share'[q]]
    BY <1>1 DEF ClientRecv, TypeInv
  <2>6. toParty' = [q \in Dialers |-> toParty'[q]]
    BY <1>1 DEF ClientRecv, TypeInv
  <2> QED
    BY <2>1, <2>2, <2>3, <2>4, <2>5, <2>6
<1>5. /\ G' = G /\ O' = O /\ H' = H /\ Ideal!Common' = Ideal!Common
      /\ \A i : S(i)' = S(i) /\ C(i)' = C(i)
      /\ \A x : Sum(x)' = Sum(x)
      /\ Faulty => Faulty'
  BY <1>1, <1>2, Kept, FaultyKept DEF TypeInv
<1>6. TypeInv'
  BY <1>1, <1>2, <1>4 DEF TypeInv
<1>7. DeadInv'
  BY <1>1, <1>2, <1>4 DEF DeadInv
<1>8. LeaderInv'
  BY <1>1, <1>2, <1>3, <1>4, PartyNumbers DEF LeaderInv, LeaderEarly
<1>9. ASSUME NEW i \in Clients
      PROVE  ClientInv(i)'
  <2>1. ClientInv(i) /\ i \in Dialers /\ i \in Parties
    BY <1>1, PartyNumbers
  <2>2. CASE i = c
    <3>1. toParty[i] = <<S(i)>> /\ thread[i] \in {"sending", "sent"}
      BY <1>1, <1>3, <2>1, <2>2 DEF ClientInv, LeaderInv, TypeInv
    <3>2. S(i).body = ShareOf(i)
      BY DEF S, Message
    <3>3. pc'[i] = "encode" /\ toParty'[i] = Tail(toParty[i]) /\ share'[i] = Head(toParty[i]).body
      BY <1>4, <2>1, <2>2
    <3>4. toParty'[i] = << >> /\ share'[i] = ShareOf(i)
      BY <3>1, <3>2, <3>3
    <3> QED
      BY <1>2, <1>3, <2>1, <2>2, <3>1, <3>3, <3>4 DEF ClientInv, ClientEarly, ClientLabels
  <2>3. CASE i # c
    <3>1. pc'[i] = pc[i] /\ toParty'[i] = toParty[i] /\ share'[i] = share[i]
      BY <1>4, <2>1, <2>3
    <3> QED
      BY <1>2, <1>5, <2>1, <3>1 DEF ClientInv, ClientEarly
  <2> QED
    BY <2>2, <2>3
<1>10. SenderInv'
  BY <1>1, <1>2, <1>3, <1>4, <1>5, PartyNumbers DEF SenderInv, ClientEarly, SenderLabels
<1>11. ResultInv'
  <2>1. pc'[Sender] = pc[Sender] /\ pc'[Leader] = pc[Leader]
        /\ \A i \in Clients : ~ ClientEarly(i) => pc'[i] = pc[i]
    BY <1>3, <1>4, PartyNumbers DEF ClientEarly
  <2>2. toParty'[Sender] = toParty[Sender]
    BY <1>4, PartyNumbers
  <2> QED
    BY <1>1, <1>2, <1>5, <2>1, <2>2 DEF ResultInv, ClientEarly, LeaderEarly
<1>12. Watched
  BY <1>2, <1>4, <1>5, PartyNumbers DEF Watched
<1> QED
  BY <1>6, <1>7, <1>8, <1>9, <1>10, <1>11, <1>12 DEF IInv

\* A client encodes and sends.
LEMMA ClientEncodeStep ==
  ASSUME IInv, NEW c \in Clients, ClientEncode(c)
  PROVE  IInv' /\ Watched
<1>1. /\ TypeInv /\ DeadInv /\ LeaderInv /\ SenderInv /\ ResultInv
      /\ \A i \in Clients : ClientInv(i)
  BY DEF IInv
<1>2. UNCHANGED <<inputs, accepting, dialing, connected, toParty, toLeader, thread, share, GCT,
                  Result, Multi_Intersection, crashes>>
  BY DEF ClientEncode, connVars
<1>3. /\ pc[c] = "encode"
  BY DEF ClientEncode
<1>4. /\ \A q \in Parties : pc'[q] = IF q = c THEN "sending" ELSE pc[q]
      /\ encodeOk' \in [Parties -> BOOLEAN]
      /\ \A q \in Parties : q # c => encodeOk'[q] = encodeOk[q]
      /\ \A q \in Clients : toSender'[q]
             = IF q = c THEN Append(toSender[q], Message("gct", ClientGCT(c, share[c], encodeOk'[c])))
               ELSE toSender[q]
      /\ pc' \in [Parties -> Labels]
      /\ toSender' = [q \in Clients |-> toSender'[q]]
  <2>1. \A q \in Parties : pc'[q] = IF q = c THEN "sending" ELSE pc[q]
    BY <1>1 DEF ClientEncode, Goto, TypeInv
  <2>2. encodeOk' \in [Parties -> BOOLEAN]
        /\ \A q \in Parties : q # c => encodeOk'[q] = encodeOk[q]
    BY <1>1 DEF ClientEncode, Outcomes, TypeInv
  <2>3. \A q \in Clients : toSender'[q]
            = IF q = c THEN Append(toSender[q], Message("gct", ClientGCT(c, share[c], encodeOk'[c])))
              ELSE toSender[q]
    BY <1>1, PartyNumbers DEF ClientEncode, TypeInv
  <2>4. pc' \in [Parties -> Labels]
    BY <1>1, PartyNumbers DEF ClientEncode, Goto, TypeInv, Labels, ClientLabels
  <2>5. toSender' = [q \in Clients |-> toSender'[q]]
    BY <1>1 DEF ClientEncode, TypeInv
  <2> QED
    BY <2>1, <2>2, <2>3, <2>4, <2>5
<1>5. /\ Ideal!Common' = Ideal!Common /\ G' = G /\ O' = O /\ \A i : S(i)' = S(i)
      /\ \A i \in Clients : i # c => C(i)' = C(i)
      /\ C(c)' = Message("gct", ClientGCT(c, ShareOf(c), encodeOk'[c]))
      /\ Faulty => Faulty'
  <2>1. encodeOk[c]
    BY <1>1, <1>3 DEF ClientInv, ClientEarly
  <2>2. Faulty => Faulty'
    BY <1>1, <1>2, <1>4, <2>1, FaultyKept DEF TypeInv
  <2>3. C(c)' = Message("gct", ClientGCT(c, ShareOf(c), encodeOk'[c]))
    BY <1>2 DEF C, ClientGCT
  <2> QED
    BY <1>2, <1>4, <2>2, <2>3, KeptOthers, PartyNumbers
<1>6. TypeInv'
  BY <1>1, <1>2, <1>4 DEF TypeInv
<1>7. DeadInv'
  BY <1>1, <1>2, <1>4 DEF DeadInv
<1>8. LeaderInv'
  BY <1>1, <1>2, <1>4, PartyNumbers DEF LeaderInv, LeaderEarly
<1>9. ASSUME NEW i \in Clients
      PROVE  ClientInv(i)'
  <2>1. ClientInv(i) /\ i \in Parties
    BY <1>1, PartyNumbers
  <2>2. CASE i = c
    <3>1. share[i] = ShareOf(i) /\ toSender[i] = << >> /\ GCT[i] = NoEncoding
      BY <1>3, <2>1, <2>2 DEF ClientInv, ClientEarly
    <3>2. pc'[i] = "sending" /\ toSender'[i] = <<C(i)'>>
      BY <1>4, <1>5, <2>1, <2>2, <3>1
    <3> QED
      BY <1>2, <1>3, <2>1, <2>2, <3>2 DEF ClientInv, ClientEarly, ClientLabels
  <2>3. CASE i # c
    <3>1. pc'[i] = pc[i] /\ toSender'[i] = toSender[i] /\ encodeOk'[i] = encodeOk[i]
      BY <1>4, <2>1, <2>3
    <3> QED
      BY <1>2, <1>5, <2>1, <2>3, <3>1 DEF ClientInv, ClientEarly
  <2> QED
    BY <2>2, <2>3
<1>10. SenderInv'
  <2>1. pc[Sender] \notin {"psi", "close", "done"}
    BY <1>1, <1>3 DEF SenderInv, ClientEarly
  <2>2. pc'[Sender] = pc[Sender] /\ pc'[Leader] = pc[Leader]
    BY <1>4, PartyNumbers
  <2> QED
    BY <1>1, <1>2, <1>5, <2>1, <2>2 DEF SenderInv
<1>11. ResultInv'
  <2>1. toLeader = << >>
    BY <1>1, <1>3 DEF ResultInv, ClientEarly
  <2>2. pc'[Sender] = pc[Sender] /\ pc'[Leader] = pc[Leader]
    BY <1>4, PartyNumbers
  <2> QED
    BY <1>1, <1>2, <1>5, <2>1, <2>2 DEF ResultInv
<1>12. Watched
  BY <1>2, <1>4, <1>5, PartyNumbers DEF Watched
<1> QED
  BY <1>6, <1>7, <1>8, <1>9, <1>10, <1>11, <1>12 DEF IInv

\* A client closes its sockets.
LEMMA ClientCloseStep ==
  ASSUME IInv, NEW c \in Clients, ClientClose(c)
  PROVE  IInv' /\ Watched
<1>1. /\ TypeInv /\ DeadInv /\ LeaderInv /\ SenderInv /\ ResultInv
      /\ \A i \in Clients : ClientInv(i)
  BY DEF IInv
<1>2. UNCHANGED <<inputs, accepting, dialing, connected, encodeOk, toParty, toSender, toLeader,
                  thread, share, GCT, Result, Multi_Intersection, crashes>>
  BY DEF ClientClose, connVars, netVars, dataVars
<1>3. /\ pc[c] = "sending"
  BY DEF ClientClose
<1>4. /\ \A q \in Parties : pc'[q] = IF q = c THEN "done" ELSE pc[q]
      /\ pc' \in [Parties -> Labels]
  <2>1. \A q \in Parties : pc'[q] = IF q = c THEN "done" ELSE pc[q]
    BY <1>1 DEF ClientClose, Goto, TypeInv
  <2>2. pc' \in [Parties -> Labels]
    BY <1>1, PartyNumbers DEF ClientClose, Goto, TypeInv, Labels, ClientLabels
  <2> QED
    BY <2>1, <2>2
<1>5. /\ G' = G /\ O' = O /\ H' = H /\ Ideal!Common' = Ideal!Common
      /\ \A i : S(i)' = S(i) /\ C(i)' = C(i)
      /\ \A x : Sum(x)' = Sum(x)
      /\ Faulty => Faulty'
  BY <1>1, <1>2, Kept, FaultyKept DEF TypeInv
<1>6. TypeInv'
  BY <1>1, <1>2, <1>4 DEF TypeInv
<1>7. DeadInv'
  BY <1>1, <1>2, <1>4 DEF DeadInv
<1>8. LeaderInv'
  BY <1>1, <1>2, <1>4, PartyNumbers DEF LeaderInv, LeaderEarly
<1>9. ASSUME NEW i \in Clients
      PROVE  ClientInv(i)'
  BY <1>1, <1>2, <1>3, <1>4, <1>5, PartyNumbers DEF ClientInv, ClientEarly, ClientLabels
<1>10. SenderInv'
  BY <1>1, <1>2, <1>4, <1>5, PartyNumbers, Queues DEF SenderInv, ClientEarly, ClientInv
<1>11. ResultInv'
  <2>1. pc'[Sender] = pc[Sender] /\ pc'[Leader] = pc[Leader]
        /\ \A i \in Clients : pc'[i] \in {pc[i], "done"}
    BY <1>4, PartyNumbers
  <2> QED
    BY <1>1, <1>2, <1>5, <2>1 DEF ResultInv, ClientEarly, LeaderEarly
<1>12. Watched
  BY <1>2, <1>4, <1>5, PartyNumbers DEF Watched
<1> QED
  BY <1>6, <1>7, <1>8, <1>9, <1>10, <1>11, <1>12 DEF IInv

\* The sender receives the leader's encoding.
LEMMA SenderRecvLeaderStep ==
  ASSUME IInv, SenderRecvLeader
  PROVE  IInv' /\ Watched
<1>1. /\ TypeInv /\ DeadInv /\ LeaderInv /\ SenderInv /\ ResultInv
      /\ \A i \in Clients : ClientInv(i)
  BY DEF IInv
<1>2. UNCHANGED <<inputs, accepting, dialing, connected, encodeOk, toSender, toLeader, thread,
                  share, Result, Multi_Intersection, crashes>>
  BY DEF SenderRecvLeader, connVars
<1>3. /\ pc[Sender] = "recvLeader" /\ toParty[Sender] # << >>
  BY DEF SenderRecvLeader
<1>4. /\ \A q \in Parties : pc'[q] = IF q = Sender THEN "recvClients" ELSE pc[q]
      /\ \A q \in Clients \cup {Leader} : GCT'[q]
             = IF q = Leader THEN Head(toParty[Sender]).body ELSE GCT[q]
      /\ \A q \in Dialers : toParty'[q] = IF q = Sender THEN Tail(toParty[q]) ELSE toParty[q]
      /\ pc' \in [Parties -> Labels]
      /\ GCT' = [k \in Clients \cup {Leader} |-> GCT'[k]]
      /\ toParty' = [q \in Dialers |-> toParty'[q]]
  <2>1. \A q \in Parties : pc'[q] = IF q = Sender THEN "recvClients" ELSE pc[q]
    BY <1>1 DEF SenderRecvLeader, Goto, TypeInv
  <2>2. \A q \in Clients \cup {Leader} : GCT'[q]
            = IF q = Leader THEN Head(toParty[Sender]).body ELSE GCT[q]
    BY <1>1 DEF SenderRecvLeader, TypeInv
  <2>3. \A q \in Dialers : toParty'[q] = IF q = Sender THEN Tail(toParty[q]) ELSE toParty[q]
    BY <1>1 DEF SenderRecvLeader, TypeInv
  <2>4. pc' \in [Parties -> Labels]
    BY <1>1, PartyNumbers DEF SenderRecvLeader, Goto, TypeInv, Labels, SenderLabels
  <2>5. GCT' = [k \in Clients \cup {Leader} |-> GCT'[k]]
    BY <1>1 DEF SenderRecvLeader, TypeInv
  <2>6. toParty' = [q \in Dialers |-> toParty'[q]]
    BY <1>1 DEF SenderRecvLeader, TypeInv
  <2> QED
    BY <2>1, <2>2, <2>3, <2>4, <2>5, <2>6
<1>5. /\ G' = G /\ O' = O /\ H' = H /\ Ideal!Common' = Ideal!Common
      /\ \A i : S(i)' = S(i) /\ C(i)' = C(i)
      /\ \A x : Sum(x)' = Sum(x)
      /\ Faulty => Faulty'
  BY <1>1, <1>2, Kept, FaultyKept DEF TypeInv
<1>6. TypeInv'
  BY <1>1, <1>2, <1>4 DEF TypeInv
<1>7. DeadInv'
  BY <1>1, <1>2, <1>4 DEF DeadInv
<1>8. LeaderInv'
  BY <1>1, <1>2, <1>3, <1>4, PartyNumbers, Queues DEF LeaderInv, LeaderEarly
<1>9. ASSUME NEW i \in Clients
      PROVE  ClientInv(i)'
  BY <1>1, <1>2, <1>4, <1>5, PartyNumbers DEF ClientInv, ClientEarly
<1>10. SenderInv'
  <2>1. toParty[Sender] \in {<<G>>, <<G, O>>} /\ thread[Sender] \in {"sending", "sent"}
        /\ (pc[Leader] \in {"share", "psi"} => toParty[Sender] = <<G>>)
    BY <1>1, <1>3, PartyNumbers DEF SenderInv, LeaderInv, TypeInv
  <2>2. toParty'[Sender] \in {<< >>, <<O>>} /\ GCT'[Leader] = G.body
        /\ (pc[Leader] \in {"share", "psi"} => toParty'[Sender] = << >>)
    <3>1. toParty'[Sender] = Tail(toParty[Sender]) /\ GCT'[Leader] = Head(toParty[Sender]).body
      BY <1>4, PartyNumbers
    <3>2. Head(toParty[Sender]) = G /\ Tail(toParty[Sender]) \in {<< >>, <<O>>}
          /\ (toParty[Sender] = <<G>> => Tail(toParty[Sender]) = << >>)
      <4>1. CASE toParty[Sender] = <<G>>
        BY <4>1
      <4>2. CASE toParty[Sender] = <<G, O>>
        BY <4>2
      <4> QED
        BY <2>1, <4>1, <4>2
    <3> QED
      BY <2>1, <3>1, <3>2
  <2>3. pc'[Sender] = "recvClients" /\ pc'[Leader] = pc[Leader]
    BY <1>4, PartyNumbers
  <2> QED
    BY <1>2, <1>5, <2>1, <2>2, <2>3 DEF SenderInv, SenderLabels
<1>11. ResultInv'
  BY <1>1, <1>2, <1>3, <1>4, <1>5, PartyNumbers DEF ResultInv
<1>12. Watched
  BY <1>2, <1>4, <1>5, PartyNumbers DEF Watched
<1> QED
  BY <1>6, <1>7, <1>8, <1>9, <1>10, <1>11, <1>12 DEF IInv

\* The sender receives a client's encoding.
LEMMA SenderRecvClientStep ==
  ASSUME IInv, NEW c \in Clients, SenderRecvClient(c)
  PROVE  IInv' /\ Watched
<1>1. /\ TypeInv /\ DeadInv /\ LeaderInv /\ SenderInv /\ ResultInv
      /\ \A i \in Clients : ClientInv(i)
  BY DEF IInv
<1>2. UNCHANGED <<inputs, pc, accepting, dialing, connected, encodeOk, toParty, toLeader,
                  thread, share, Result, Multi_Intersection, crashes>>
  BY DEF SenderRecvClient, connVars
<1>3. /\ pc[Sender] = "recvClients" /\ toSender[c] # << >>
  BY DEF SenderRecvClient
<1>4. /\ \A q \in Clients \cup {Leader} : GCT'[q]
             = IF q = c THEN Head(toSender[c]).body ELSE GCT[q]
      /\ \A q \in Clients : toSender'[q] = IF q = c THEN Tail(toSender[q]) ELSE toSender[q]
      /\ GCT' = [k \in Clients \cup {Leader} |-> GCT'[k]]
      /\ toSender' = [q \in Clients |-> toSender'[q]]
  <2>1. \A q \in Clients \cup {Leader} : GCT'[q]
            = IF q = c THEN Head(toSender[c]).body ELSE GCT[q]
    BY <1>1 DEF SenderRecvClient, TypeInv
  <2>2. \A q \in Clients : toSender'[q] = IF q = c THEN Tail(toSender[q]) ELSE toSender[q]
    BY <1>1 DEF SenderRecvClient, TypeInv
  <2>3. GCT' = [k \in Clients \cup {Leader} |-> GCT'[k]]
    BY <1>1 DEF SenderRecvClient, TypeInv
  <2>4. toSender' = [q \in Clients |-> toSender'[q]]
    BY <1>1 DEF SenderRecvClient, TypeInv
  <2> QED
    BY <2>1, <2>2, <2>3, <2>4
<1>5. /\ G' = G /\ O' = O /\ H' = H /\ Ideal!Common' = Ideal!Common
      /\ \A i : S(i)' = S(i) /\ C(i)' = C(i)
      /\ \A x : Sum(x)' = Sum(x)
      /\ Faulty => Faulty'
  BY <1>1, <1>2, Kept, FaultyKept DEF TypeInv
<1>6. TypeInv'
  BY <1>1, <1>2, <1>4 DEF TypeInv
<1>7. DeadInv'
  BY <1>1, <1>2 DEF DeadInv
<1>8. LeaderInv'
  BY <1>1, <1>2 DEF LeaderInv, LeaderEarly
<1>9. ASSUME NEW i \in Clients
      PROVE  ClientInv(i)'
  <2>1. ClientInv(i)
    BY <1>1
  <2>2. CASE i = c
    <3>1. toSender[i] = <<C(i)>> /\ ~ ClientEarly(i)
      BY <1>3, <2>1, <2>2 DEF ClientInv
    <3>2. toSender'[i] = Tail(toSender[i]) /\ GCT'[i] = Head(toSender[i]).body
      BY <1>4, <2>2
    <3>3. toSender'[i] = << >> /\ GCT'[i] = C(i).body
      BY <3>1, <3>2
    <3> QED
      BY <1>2, <1>5, <2>1, <3>1, <3>3 DEF ClientInv, ClientEarly
  <2>3. CASE i # c
    <3>1. toSender'[i] = toSender[i] /\ GCT'[i] = GCT[i]
      BY <1>4, <2>3
    <3> QED
      BY <1>2, <1>5, <2>1, <3>1 DEF ClientInv, ClientEarly
  <2> QED
    BY <2>2, <2>3
<1>10. SenderInv'
  <2>1. c # Leader /\ Leader \in Clients \cup {Leader}
    BY PartyNumbers
  <2>2. GCT'[Leader] = GCT[Leader]
    BY <1>4, <2>1
  <2> QED
    BY <1>1, <1>2, <1>3, <1>5, <2>2 DEF SenderInv
<1>11. ResultInv'
  BY <1>1, <1>2, <1>5 DEF ResultInv, ClientEarly, LeaderEarly
<1>12. Watched
  BY <1>2, <1>5 DEF Watched
<1> QED
  BY <1>6, <1>7, <1>8, <1>9, <1>10, <1>11, <1>12 DEF IInv

\* The sender decodes.
LEMMA SenderDecodeStep ==
  ASSUME IInv, SenderDecode
  PROVE  IInv' /\ Watched
<1>1. /\ TypeInv /\ DeadInv /\ LeaderInv /\ SenderInv /\ ResultInv
      /\ \A i \in Clients : ClientInv(i)
  BY DEF IInv
<1>2. UNCHANGED <<inputs, accepting, dialing, connected, encodeOk, toParty, toSender, toLeader,
                  thread, share, GCT, Multi_Intersection, crashes>>
  BY DEF SenderDecode, connVars, netVars
<1>3. /\ pc[Sender] = "recvClients" /\ AllReceived
  BY DEF SenderDecode
<1>4. /\ \A q \in Parties : pc'[q] = IF q = Sender THEN "psi" ELSE pc[q]
      /\ Result' = [x \in inputs[Sender] |-> DecodeSum(x)]
      /\ pc' \in [Parties -> Labels]
  <2>1. \A q \in Parties : pc'[q] = IF q = Sender THEN "psi" ELSE pc[q]
    BY <1>1 DEF SenderDecode, Goto, TypeInv
  <2>2. Result' = [x \in inputs[Sender] |-> DecodeSum(x)]
    BY DEF SenderDecode
  <2>3. pc' \in [Parties -> Labels]
    BY <1>1, PartyNumbers DEF SenderDecode, Goto, TypeInv, Labels, SenderLabels
  <2> QED
    BY <2>1, <2>2, <2>3
<1>5. /\ G' = G /\ O' = O /\ H' = H /\ Ideal!Common' = Ideal!Common
      /\ \A i : S(i)' = S(i) /\ C(i)' = C(i)
      /\ \A x : Sum(x)' = Sum(x)
      /\ Faulty => Faulty'
  BY <1>1, <1>2, Kept, FaultyKept DEF TypeInv
<1>6. TypeInv'
  BY <1>1, <1>2, <1>4 DEF TypeInv
<1>7. DeadInv'
  BY <1>1, <1>2, <1>4 DEF DeadInv
<1>8. LeaderInv'
  BY <1>1, <1>2, <1>4, PartyNumbers DEF LeaderInv, LeaderEarly
<1>9. ASSUME NEW i \in Clients
      PROVE  ClientInv(i)'
  BY <1>1, <1>2, <1>4, <1>5, PartyNumbers DEF ClientInv, ClientEarly
<1>10. SenderInv'
  <2>1. ASSUME NEW i \in Clients
        PROVE  GCT[i] = C(i).body /\ toSender[i] = << >> /\ ~ ClientEarly(i)
    BY <1>1, <1>3 DEF ClientInv, AllReceived
  <2>2. ASSUME NEW x
        PROVE  DecodeSum(x) = Sum(x)
    <3>1. GCT[Leader] = LeaderGCT(encodeOk[Leader])
      BY <1>1, <1>3 DEF SenderInv, G, Message
    <3>2. \A i \in Clients : GCT[i] = ClientGCT(i, ShareOf(i), encodeOk[i])
      BY <2>1 DEF C, Message
    <3> QED
      BY <3>1, <3>2 DEF DecodeSum, Sum
  <2>3. pc'[Sender] = "psi" /\ pc'[Leader] = pc[Leader]
        /\ \A i \in Clients : pc'[i] = pc[i]
    BY <1>4, PartyNumbers
  <2>4. Result' = [x \in inputs[Sender] |-> Sum(x)]
    BY <1>4, <2>2
  <2>5. \A i \in Clients : toSender'[i] = << >> /\ ~ ClientEarly(i)'
    BY <1>2, <2>1, <2>3 DEF ClientEarly
  <2>6. Result' = [x \in inputs'[Sender] |-> Sum(x)']
    BY <1>2, <1>5, <2>4
  <2> QED
    BY <1>1, <1>2, <1>3, <2>3, <2>5, <2>6 DEF SenderInv, SenderLabels
<1>11. ResultInv'
  BY <1>1, <1>2, <1>3, <1>4, <1>5, PartyNumbers DEF ResultInv
<1>12. Watched
  BY <1>2, <1>4, <1>5, PartyNumbers DEF Watched
<1> QED
  BY <1>6, <1>7, <1>8, <1>9, <1>10, <1>11, <1>12 DEF IInv

\* The leader starts the PSI.
LEMMA LeaderPsiStartStep ==
  ASSUME IInv, LeaderPsiStart
  PROVE  IInv' /\ Watched
<1>1. /\ TypeInv /\ DeadInv /\ LeaderInv /\ SenderInv /\ ResultInv
      /\ \A i \in Clients : ClientInv(i)
  BY DEF IInv
<1>2. UNCHANGED <<inputs, accepting, dialing, connected, encodeOk, toSender, toLeader, thread,
                  share, GCT, Result, Multi_Intersection, crashes>>
  BY DEF LeaderPsiStart, connVars, dataVars
<1>3. /\ pc[Leader] = "psi"
  BY DEF LeaderPsiStart
<1>4. /\ \A q \in Parties : pc'[q] = IF q = Leader THEN "psiWait" ELSE pc[q]
      /\ \A q \in Dialers : toParty'[q]
             = IF q = Sender THEN Append(toParty[q], O) ELSE toParty[q]
      /\ pc' \in [Parties -> Labels]
      /\ toParty' = [q \in Dialers |-> toParty'[q]]
  <2>1. \A q \in Parties : pc'[q] = IF q = Leader THEN "psiWait" ELSE pc[q]
    BY <1>1 DEF LeaderPsiStart, Goto, TypeInv
  <2>2. \A q \in Dialers : toParty'[q]
            = IF q = Sender THEN Append(toParty[q], O) ELSE toParty[q]
    BY <1>1 DEF LeaderPsiStart, O, TypeInv
  <2>3. pc' \in [Parties -> Labels]
    BY <1>1, PartyNumbers DEF LeaderPsiStart, Goto, TypeInv, Labels, LeaderLabels
  <2>4. toParty' = [q \in Dialers |-> toParty'[q]]
    BY <1>1 DEF LeaderPsiStart, TypeInv
  <2> QED
    BY <2>1, <2>2, <2>3, <2>4
<1>5. /\ G' = G /\ O' = O /\ H' = H /\ Ideal!Common' = Ideal!Common
      /\ \A i : S(i)' = S(i) /\ C(i)' = C(i)
      /\ \A x : Sum(x)' = Sum(x)
      /\ Faulty => Faulty'
  BY <1>1, <1>2, Kept, FaultyKept DEF TypeInv
<1>6. TypeInv'
  BY <1>1, <1>2, <1>4 DEF TypeInv
<1>7. DeadInv'
  BY <1>1, <1>2, <1>4 DEF DeadInv
<1>8. LeaderInv'
  BY <1>1, <1>2, <1>3, <1>4 DEF TypeInv, LeaderInv, LeaderEarly, LeaderLabels
<1>9. ASSUME NEW i \in Clients
      PROVE  ClientInv(i)'
  BY <1>1, <1>2, <1>4, <1>5, PartyNumbers DEF ClientInv, ClientEarly
<1>10. SenderInv'
  <2>1. toParty[Sender] \in {<< >>, <<G>>} /\ thread[Sender] = "sent"
        /\ (pc[Sender] \in {"dial", "dialClients", "recvLeader"} => toParty[Sender] = <<G>>)
        /\ (pc[Sender] \in {"recvClients", "psi", "close", "done"} => toParty[Sender] = << >>)
    BY <1>1, <1>3, PartyNumbers DEF SenderInv, LeaderInv
  <2>2. toParty'[Sender] = IF toParty[Sender] = << >> THEN <<O>> ELSE <<G, O>>
    <3>1. toParty'[Sender] = Append(toParty[Sender], O)
      BY <1>4, PartyNumbers
    <3> QED
      BY <2>1, <3>1
  <2>3. pc'[Sender] = pc[Sender] /\ pc'[Leader] = "psiWait"
        /\ \A i \in Clients : pc'[i] = pc[i]
    BY <1>4, PartyNumbers
  <2> QED
    BY <1>1, <1>2, <1>5, <2>1, <2>2, <2>3 DEF SenderInv, ClientEarly
<1>11. ResultInv'
  <2>1. pc'[Sender] = pc[Sender] /\ pc'[Leader] = "psiWait"
        /\ \A i \in Clients : pc'[i] = pc[i]
    BY <1>4, PartyNumbers
  <2>2. crashes = 0 => pc[Sender] \notin {"close", "done"} /\ toLeader = << >>
    BY <1>1, <1>3 DEF ResultInv
  <2> QED
    BY <1>1, <1>2, <1>5, <2>1, <2>2 DEF ResultInv, ClientEarly, LeaderEarly
<1>12. Watched
  BY <1>2, <1>3, <1>4, <1>5, PartyNumbers DEF Watched
<1> QED
  BY <1>6, <1>7, <1>8, <1>9, <1>10, <1>11, <1>12 DEF IInv

\* The sender's half of the PSI.
LEMMA SenderPsiStep ==
  ASSUME IInv, SenderPsi
  PROVE  IInv' /\ Watched
<1>1. /\ TypeInv /\ DeadInv /\ LeaderInv /\ SenderInv /\ ResultInv
      /\ \A i \in Clients : ClientInv(i)
  BY DEF IInv
<1>2. UNCHANGED <<inputs, accepting, dialing, connected, encodeOk, toSender, thread, share, GCT,
                  Result, Multi_Intersection, crashes>>
  BY DEF SenderPsi, connVars, dataVars
<1>3. /\ pc[Sender] = "psi" /\ toParty[Sender] # << >>
  BY DEF SenderPsi
<1>4. /\ \A q \in Parties : pc'[q] = IF q = Sender THEN "close" ELSE pc[q]
      /\ \A q \in Dialers : toParty'[q] = IF q = Sender THEN Tail(toParty[q]) ELSE toParty[q]
      /\ toLeader' = Append(toLeader, Message("hashes", {Result[x] : x \in DOMAIN Result}))
      /\ pc' \in [Parties -> Labels]
      /\ toParty' = [q \in Dialers |-> toParty'[q]]
  <2>1. \A q \in Parties : pc'[q] = IF q = Sender THEN "close" ELSE pc[q]
    BY <1>1 DEF SenderPsi, Goto, TypeInv
  <2>2. \A q \in Dialers : toParty'[q] = IF q = Sender THEN Tail(toParty[q]) ELSE toParty[q]
    BY <1>1 DEF SenderPsi, TypeInv
  <2>3. toLeader' = Append(toLeader, Message("hashes", {Result[x] : x \in DOMAIN Result}))
    BY DEF SenderPsi
  <2>4. pc' \in [Parties -> Labels]
    BY <1>1, PartyNumbers DEF SenderPsi, Goto, TypeInv, Labels, SenderLabels
  <2>5. toParty' = [q \in Dialers |-> toParty'[q]]
    BY <1>1 DEF SenderPsi, TypeInv
  <2> QED
    BY <2>1, <2>2, <2>3, <2>4, <2>5
<1>5. /\ G' = G /\ O' = O /\ H' = H /\ Ideal!Common' = Ideal!Common
      /\ \A i : S(i)' = S(i) /\ C(i)' = C(i)
      /\ \A x : Sum(x)' = Sum(x)
      /\ Faulty => Faulty'
  BY <1>1, <1>2, Kept, FaultyKept DEF TypeInv
<1>6. TypeInv'
  BY <1>1, <1>2, <1>4 DEF TypeInv
<1>7. DeadInv'
  BY <1>1, <1>2, <1>4 DEF DeadInv
<1>8. LeaderInv'
  BY <1>1, <1>2, <1>3, <1>4, PartyNumbers DEF LeaderInv, LeaderEarly
<1>9. ASSUME NEW i \in Clients
      PROVE  ClientInv(i)'
  BY <1>1, <1>2, <1>4, <1>5, PartyNumbers DEF ClientInv, ClientEarly
<1>10. SenderInv'
  <2>1. toParty[Sender] = <<O>>
    BY <1>1, <1>3 DEF SenderInv
  <2>2. toParty'[Sender] = << >>
    <3>1. toParty'[Sender] = Tail(toParty[Sender])
      BY <1>4, PartyNumbers
    <3> QED
      BY <2>1, <3>1
  <2>3. pc'[Sender] = "close" /\ pc'[Leader] = pc[Leader]
        /\ \A i \in Clients : pc'[i] = pc[i]
    BY <1>4, PartyNumbers
  <2> QED
    BY <1>1, <1>2, <1>3, <2>2, <2>3 DEF SenderInv, SenderLabels, ClientEarly
<1>11. ResultInv'
  <2>1. toParty[Sender] = <<O>> /\ pc[Leader] \notin {"share", "psi"} /\ ~ LeaderEarly
    BY <1>1, <1>3, PartyNumbers DEF SenderInv, LeaderInv
  <2>2. toParty'[Sender] = << >>
    <3>1. toParty'[Sender] = Tail(toParty[Sender])
      BY <1>4, PartyNumbers
    <3> QED
      BY <2>1, <3>1
  <2>3. pc'[Sender] = "close" /\ pc'[Leader] = pc[Leader]
        /\ \A i \in Clients : pc'[i] = pc[i]
    BY <1>4, PartyNumbers
  <2>4. toLeader' = <<H>>
    <3>1. toLeader = << >>
      BY <1>1, <1>3 DEF ResultInv
    <3>2. Result = [x \in inputs[Sender] |-> Sum(x)]
      BY <1>1, <1>3 DEF SenderInv
    <3>3. {Result[x] : x \in DOMAIN Result} = {Sum(x) : x \in inputs[Sender]}
      BY <3>2
    <3>4. Message("hashes", {Result[x] : x \in DOMAIN Result}) = H
      BY <3>3 DEF H
    <3> QED
      BY <1>4, <3>1, <3>4
  <2>5. crashes = 0 => pc[Leader] = "psiWait"
    BY <1>1, <2>1, PartyNumbers DEF ResultInv, DeadInv, LeaderInv, LeaderLabels, LeaderEarly
  <2>6. \A i \in Clients : ~ ClientEarly(i)
    BY <1>1, <1>3 DEF SenderInv
  <2> QED
    BY <1>1, <1>2, <1>5, <2>1, <2>2, <2>3, <2>4, <2>5, <2>6
       DEF ResultInv, ClientEarly, LeaderEarly
<1>12. Watched
  BY <1>2, <1>4, <1>5, PartyNumbers DEF Watched
<1> QED
  BY <1>6, <1>7, <1>8, <1>9, <1>10, <1>11, <1>12 DEF IInv

\* The leader's PSI ends.
LEMMA LeaderPsiEndStep ==
  ASSUME IInv, LeaderPsiEnd
  PROVE  IInv' /\ Watched
<1>1. /\ TypeInv /\ DeadInv /\ LeaderInv /\ SenderInv /\ ResultInv
      /\ \A i \in Clients : ClientInv(i)
  BY DEF IInv
<1>2. UNCHANGED <<inputs, accepting, dialing, connected, encodeOk, toParty, toSender, thread,
                  share, GCT, Result, crashes>>
  BY DEF LeaderPsiEnd, connVars
<1>3. /\ pc[Leader] = "psiWait" /\ toLeader # << >>
  BY DEF LeaderPsiEnd
<1>4. /\ \A q \in Parties : pc'[q] = IF q = Leader THEN "close" ELSE pc[q]
      /\ toLeader' = Tail(toLeader)
      /\ Multi_Intersection' = {x \in inputs[Leader] : {Rand(x)} \in Head(toLeader).body}
      /\ pc' \in [Parties -> Labels]
  <2>1. \A q \in Parties : pc'[q] = IF q = Leader THEN "close" ELSE pc[q]
    BY <1>1 DEF LeaderPsiEnd, Goto, TypeInv
  <2>2. toLeader' = Tail(toLeader)
    BY DEF LeaderPsiEnd
  <2>3. Multi_Intersection' = {x \in inputs[Leader] : {Rand(x)} \in Head(toLeader).body}
    BY DEF LeaderPsiEnd
  <2>4. pc' \in [Parties -> Labels]
    BY <1>1, PartyNumbers DEF LeaderPsiEnd, Goto, TypeInv, Labels, SenderLabels
  <2> QED
    BY <2>1, <2>2, <2>3, <2>4
<1>5. /\ G' = G /\ O' = O /\ H' = H /\ Ideal!Common' = Ideal!Common
      /\ \A i : S(i)' = S(i) /\ C(i)' = C(i)
      /\ \A x : Sum(x)' = Sum(x)
      /\ Faulty => Faulty'
  BY <1>1, <1>2, Kept, FaultyKept DEF TypeInv
<1>6. TypeInv'
  BY <1>1, <1>2, <1>4 DEF TypeInv
<1>7. DeadInv'
  BY <1>1, <1>2, <1>4 DEF DeadInv
<1>8. LeaderInv'
  BY <1>1, <1>2, <1>4 DEF TypeInv, LeaderInv, LeaderEarly, LeaderLabels
<1>9. ASSUME NEW i \in Clients
      PROVE  ClientInv(i)'
  BY <1>1, <1>2, <1>4, <1>5, PartyNumbers DEF ClientInv, ClientEarly
<1>10. SenderInv'
  <2>1. pc'[Sender] = pc[Sender] /\ pc'[Leader] = "close" /\ \A i \in Clients : pc'[i] = pc[i]
    BY <1>4, PartyNumbers
  <2> QED
    BY <1>1, <1>2, <1>5, <2>1 DEF SenderInv, ClientEarly
<1>11. ResultInv'
  <2>1. toLeader = <<H>> /\ pc[Sender] \in {"close", "done", "dead"}
    BY <1>1, <1>3 DEF ResultInv
  <2>2. Multi_Intersection' = {x \in inputs[Leader] : {Rand(x)} \in {Sum(y) : y \in inputs[Sender]}}
        /\ toLeader' = << >>
    <3>1. H.body = {Sum(y) : y \in inputs[Sender]}
      BY DEF H, Message
    <3> QED
      BY <1>4, <2>1, <3>1, Queues
  <2>3. Multi_Intersection' = IF AllOk THEN Ideal!Common ELSE {}
    BY <1>1, <2>2, Compared DEF TypeInv
  <2>4. ~ AllOk => Faulty
    BY PartyNumbers DEF AllOk, Faulty
  <2>5. pc'[Sender] = pc[Sender] /\ pc'[Leader] = "close"
    BY <1>4, PartyNumbers
  <2>6. crashes = 0 => pc[Sender] # "dead"
    BY <1>1, PartyNumbers DEF DeadInv
  <2> QED
    BY <1>1, <1>2, <1>5, <2>1, <2>2, <2>3, <2>4, <2>5, <2>6 DEF ResultInv
<1>12. Watched
  BY <1>2, <1>3, <1>4, <1>5, PartyNumbers DEF Watched
<1> QED
  BY <1>6, <1>7, <1>8, <1>9, <1>10, <1>11, <1>12 DEF IInv

\* A run returns.
LEMMA CloseStep ==
  ASSUME IInv, NEW p \in Parties, Close(p)
  PROVE  IInv' /\ Watched
<1>1. /\ TypeInv /\ DeadInv /\ LeaderInv /\ SenderInv /\ ResultInv
      /\ \A i \in Clients : ClientInv(i)
  BY DEF IInv
<1>2. UNCHANGED <<inputs, accepting, dialing, connected, encodeOk, toParty, toSender, toLeader,
                  thread, share, GCT, Result, Multi_Intersection, crashes>>
  BY DEF Close, connVars, netVars, dataVars
<1>3. /\ p \in {Leader, Sender} /\ pc[p] = "close"
  BY DEF Close
<1>4. /\ \A q \in Parties : pc'[q] = IF q = p THEN "done" ELSE pc[q]
      /\ pc' \in [Parties -> Labels]
  <2>1. \A q \in Parties : pc'[q] = IF q = p THEN "done" ELSE pc[q]
    BY <1>1 DEF Close, Goto, TypeInv
  <2>2. pc' \in [Parties -> Labels]
    BY <1>1 DEF Close, Goto, TypeInv, Labels, ClientLabels
  <2> QED
    BY <2>1, <2>2
<1>5. /\ G' = G /\ O' = O /\ H' = H /\ Ideal!Common' = Ideal!Common
      /\ \A i : S(i)' = S(i) /\ C(i)' = C(i)
      /\ \A x : Sum(x)' = Sum(x)
      /\ Faulty => Faulty'
  BY <1>1, <1>2, Kept, FaultyKept DEF TypeInv
<1>6. TypeInv'
  BY <1>1, <1>2, <1>4 DEF TypeInv
<1>7. DeadInv'
  BY <1>1, <1>2, <1>4 DEF DeadInv
<1>8. LeaderInv'
  BY <1>1, <1>2, <1>4, PartyNumbers DEF LeaderInv, LeaderEarly, LeaderLabels
<1>9. ASSUME NEW i \in Clients
      PROVE  ClientInv(i)'
  BY <1>1, <1>2, <1>3, <1>4, <1>5, PartyNumbers DEF ClientInv, ClientEarly
<1>10. SenderInv'
  <2>1. pc'[Sender] \in {pc[Sender], "done"}
        /\ (pc[Sender] # "close" => pc'[Sender] = pc[Sender])
        /\ pc'[Leader] \in {pc[Leader], "done"}
        /\ (pc[Leader] # "close" => pc'[Leader] = pc[Leader])
        /\ \A i \in Clients : pc'[i] = pc[i]
    BY <1>3, <1>4, PartyNumbers
  <2> QED
    BY <1>1, <1>2, <1>5, <2>1 DEF SenderInv, ClientEarly, SenderLabels
<1>11. ResultInv'
  <2>1. pc'[Sender] \in {pc[Sender], "done"}
        /\ (pc[Sender] # "close" => pc'[Sender] = pc[Sender])
        /\ pc'[Leader] \in {pc[Leader], "done"}
        /\ (pc[Leader] # "close" => pc'[Leader] = pc[Leader])
        /\ \A i \in Clients : pc'[i] = pc[i]
    BY <1>3, <1>4, PartyNumbers
  <2> QED
    BY <1>1, <1>2, <1>5, <2>1 DEF ResultInv, ClientEarly, LeaderEarly
<1>12. Watched
  BY <1>2, <1>3, <1>4, <1>5, PartyNumbers DEF Watched
<1> QED
  BY <1>6, <1>7, <1>8, <1>9, <1>10, <1>11, <1>12 DEF IInv

\* A process dies.
LEMMA CrashStep ==
  ASSUME IInv, NEW p \in Parties, Crash(p)
  PROVE  IInv' /\ Watched
<1>1. /\ TypeInv /\ DeadInv /\ LeaderInv /\ SenderInv /\ ResultInv
      /\ \A i \in Clients : ClientInv(i)
  BY DEF IInv
<1>2. UNCHANGED <<inputs, accepting, dialing, connected, encodeOk, thread, share, GCT, Result,
                  Multi_Intersection>>
  BY DEF Crash, connVars, dataVars
<1>3. /\ pc[p] \notin {"done", "dead"}
  BY DEF Crash
<1>4. /\ \A q \in Parties : pc'[q] = IF q = p THEN "dead" ELSE pc[q]
      /\ crashes' = crashes + 1 /\ crashes' \in 0 .. MaxCrashes
      /\ \A q \in Dialers : toParty'[q] = toParty[q] \/ (p = Leader /\ toParty'[q] = << >>)
      /\ \A q \in Clients : toSender'[q] = toSender[q] \/ (p = q /\ toSender'[q] = << >>)
      /\ toLeader' \in {toLeader, << >>}
      /\ pc' \in [Parties -> Labels]
      /\ toParty' = [q \in Dialers |-> toParty'[q]]
      /\ toSender' = [q \in Clients |-> toSender'[q]]
  <2>1. /\ \A q \in Parties : pc'[q] = IF q = p THEN "dead" ELSE pc[q]
        /\ pc' \in [Parties -> Labels]
    BY <1>1 DEF Crash, Goto, TypeInv, Labels, LeaderLabels
  <2>2. crashes' = crashes + 1 /\ crashes' \in 0 .. MaxCrashes
    <3>1. crashes < MaxCrashes /\ crashes' = crashes + 1
      BY DEF Crash
    <3>2. crashes \in 0 .. MaxCrashes /\ MaxCrashes \in Nat
      BY <1>1, UserAssumption DEF TypeInv
    <3> QED
      BY <3>1, <3>2
  <2>3. PICK lost \in SUBSET Dialers :
          toParty' = IF p = Leader
                     THEN [q \in Dialers |-> IF q \in lost THEN << >> ELSE toParty[q]]
                     ELSE toParty
    BY DEF Crash
  <2>7. \A q \in Dialers : toParty'[q] = toParty[q] \/ (p = Leader /\ toParty'[q] = << >>)
    <3>1. CASE p = Leader
      <4>1. toParty' = [q \in Dialers |-> IF q \in lost THEN << >> ELSE toParty[q]]
        BY <2>3, <3>1
      <4>2. \A q \in Dialers : toParty'[q] = toParty[q] \/ toParty'[q] = << >>
        BY <4>1
      <4> QED
        BY <3>1, <4>2
    <3>2. CASE p # Leader
      <4>1. toParty' = toParty
        BY <2>3, <3>2
      <4> QED
        BY <4>1
    <3> QED
      BY <3>1, <3>2
  <2>8. toParty' = [q \in Dialers |-> toParty'[q]]
    BY <1>1, <2>3 DEF TypeInv
  <2>4. PICK gone \in BOOLEAN :
          /\ toLeader' = IF p = Sender /\ gone THEN << >> ELSE toLeader
          /\ toSender' = IF p \in Clients /\ gone
                         THEN [toSender EXCEPT ![p] = << >>] ELSE toSender
    BY DEF Crash
  <2>5. toLeader' \in {toLeader, << >>}
    BY <2>4
  <2>6. \A q \in Clients : toSender'[q] = toSender[q] \/ (p = q /\ toSender'[q] = << >>)
    <3>1. CASE p \in Clients /\ gone
      <4>1. toSender' = [toSender EXCEPT ![p] = << >>]
            /\ toSender = [q \in Clients |-> toSender[q]]
        BY <1>1, <2>4, <3>1 DEF TypeInv
      <4>2. \A q \in Clients : IF q = p THEN toSender'[q] = << >> ELSE toSender'[q] = toSender[q]
        BY <4>1
      <4> QED
        BY <4>2
    <3>2. CASE ~ (p \in Clients /\ gone)
      <4>1. toSender' = toSender
        BY <2>4, <3>2
      <4> QED
        BY <4>1
    <3> QED
      BY <3>1, <3>2
  <2>9. toSender' = [q \in Clients |-> toSender'[q]]
    BY <1>1, <2>4 DEF TypeInv
  <2> QED
    BY <2>1, <2>2, <2>5, <2>6, <2>7, <2>8, <2>9
<1>5. /\ G' = G /\ O' = O /\ H' = H /\ Ideal!Common' = Ideal!Common
      /\ \A i : S(i)' = S(i) /\ C(i)' = C(i)
      /\ \A x : Sum(x)' = Sum(x)
      /\ Faulty => Faulty'
  BY <1>1, <1>2, <1>4, Kept, FaultyKept DEF TypeInv
<1>6. TypeInv'
  BY <1>1, <1>2, <1>4 DEF TypeInv
<1>7. DeadInv'
  <2>1. crashes' # 0
    BY <1>1, <1>4 DEF TypeInv
  <2> QED
    BY <2>1 DEF DeadInv
<1>8. LeaderInv'
  <2>1. pc'[Leader] \in {pc[Leader], "dead"}
    BY <1>4, PartyNumbers
  <2>2. \A q \in Dialers : toParty[q] = << >> => toParty'[q] = << >>
    BY <1>4
  <2> QED
    BY <1>1, <1>2, <2>1, <2>2 DEF LeaderInv, LeaderEarly, LeaderLabels
<1>9. ASSUME NEW i \in Clients
      PROVE  ClientInv(i)'
  <2>1. ClientInv(i) /\ i \in Dialers /\ i \in Parties
    BY <1>1, PartyNumbers
  <2>2. pc'[i] \in {pc[i], "dead"} /\ toParty'[i] \in {toParty[i], << >>}
        /\ toSender'[i] \in {toSender[i], << >>}
    BY <1>4, <2>1
  <2> QED
    BY <1>2, <1>5, <2>1, <2>2 DEF ClientInv, ClientEarly, ClientLabels
<1>10. SenderInv'
  <2>1. /\ pc'[Sender] = IF p = Sender THEN "dead" ELSE pc[Sender]
        /\ pc'[Leader] = IF p = Leader THEN "dead" ELSE pc[Leader]
        /\ \A i \in Clients : pc'[i] \in {pc[i], "dead"} /\ toSender'[i] \in {toSender[i], << >>}
        /\ toParty'[Sender] = toParty[Sender] \/ (p = Leader /\ toParty'[Sender] = << >>)
    BY <1>4, PartyNumbers
  <2>2. pc[Sender] \in {"psi", "close", "done"} =>
          \A i \in Clients : toSender'[i] = << >> /\ ~ ClientEarly(i)'
    BY <1>1, <2>1 DEF SenderInv, ClientEarly
  <2>3. CASE p = Sender
    <3>1. pc'[Sender] = "dead" /\ pc'[Leader] = pc[Leader] /\ toParty'[Sender] = toParty[Sender]
      BY <2>1, <2>3, PartyNumbers
    <3> QED
      BY <1>1, <1>5, <3>1 DEF SenderInv, SenderLabels
  <2>4. CASE p = Leader
    <3>1. pc'[Sender] = pc[Sender] /\ pc'[Leader] = "dead"
          /\ toParty'[Sender] \in {toParty[Sender], << >>}
      BY <2>1, <2>4, PartyNumbers
    <3> QED
      BY <1>1, <1>2, <1>5, <2>2, <3>1 DEF SenderInv
  <2>5. CASE p # Sender /\ p # Leader
    <3>1. pc'[Sender] = pc[Sender] /\ pc'[Leader] = pc[Leader]
          /\ toParty'[Sender] = toParty[Sender]
      BY <2>1, <2>5
    <3> QED
      BY <1>1, <1>2, <1>5, <2>2, <3>1 DEF SenderInv
  <2> QED
    BY <2>3, <2>4, <2>5
<1>11. ResultInv'
  <2>1. /\ pc'[Sender] \in {pc[Sender], "dead"} /\ pc'[Leader] \in {pc[Leader], "dead"}
        /\ \A i \in Clients : pc'[i] \in {pc[i], "dead"}
    BY <1>4, PartyNumbers
  <2>2. crashes' # 0
    BY <1>1, <1>4 DEF TypeInv
  <2> QED
    BY <1>1, <1>2, <1>4, <1>5, <2>1, <2>2 DEF ResultInv, ClientEarly, LeaderEarly
<1>12. Watched
  BY <1>2, <1>3, <1>4, <1>5, PartyNumbers DEF Watched
<1> QED
  BY <1>6, <1>7, <1>8, <1>9, <1>10, <1>11, <1>12 DEF IInv

\* A receive fails.
LEMMA RecvFailsStep ==
  ASSUME IInv, NEW p \in Parties, RecvFails(p)
  PROVE  IInv' /\ Watched
<1>1. /\ TypeInv /\ DeadInv /\ LeaderInv /\ SenderInv /\ ResultInv
      /\ \A i \in Clients : ClientInv(i)
  BY DEF IInv
<1>2. UNCHANGED <<inputs, accepting, dialing, connected, encodeOk, toParty, toSender, toLeader,
                  thread, share, GCT, Result, Multi_Intersection, crashes>>
  BY DEF RecvFails, connVars, netVars, dataVars
<1>3. /\ crashes > 0 /\ p # Leader /\ pc[p] \in {"recvShare", "recvLeader", "recvClients"}
  BY <1>1, PartyNumbers DEF RecvFails, Alive, DeadInv, TypeInv
<1>4. /\ \A q \in Parties : pc'[q] = IF q = p THEN "dead" ELSE pc[q]
      /\ pc' \in [Parties -> Labels]
  <2>1. \A q \in Parties : pc'[q] = IF q = p THEN "dead" ELSE pc[q]
    BY <1>1 DEF RecvFails, Goto, TypeInv
  <2>2. pc' \in [Parties -> Labels]
    BY <1>1 DEF RecvFails, Goto, TypeInv, Labels, ClientLabels
  <2> QED
    BY <2>1, <2>2
<1>5. /\ G' = G /\ O' = O /\ H' = H /\ Ideal!Common' = Ideal!Common
      /\ \A i : S(i)' = S(i) /\ C(i)' = C(i)
      /\ \A x : Sum(x)' = Sum(x)
      /\ Faulty => Faulty'
  BY <1>1, <1>2, Kept, FaultyKept DEF TypeInv
<1>6. TypeInv'
  BY <1>1, <1>2, <1>4 DEF TypeInv
<1>7. DeadInv'
  BY <1>2, <1>3 DEF DeadInv
<1>8. LeaderInv'
  BY <1>1, <1>2, <1>4, PartyNumbers DEF LeaderInv, LeaderEarly, LeaderLabels
<1>9. ASSUME NEW i \in Clients
      PROVE  ClientInv(i)'
  <2>1. ClientInv(i)
    BY <1>1
  <2>2. pc'[i] \in {pc[i], "dead"}
    BY <1>4, PartyNumbers
  <2> QED
    BY <1>2, <1>5, <2>1, <2>2 DEF ClientInv, ClientEarly, ClientLabels
<1>10. SenderInv'
  <2>1. pc'[Sender] \in {pc[Sender], "dead"} /\ pc'[Leader] = pc[Leader]
        /\ \A i \in Clients : pc'[i] \in {pc[i], "dead"}
    BY <1>3, <1>4, PartyNumbers
  <2> QED
    BY <1>1, <1>2, <1>5, <2>1 DEF SenderInv, ClientEarly, SenderLabels
<1>11. ResultInv'
  <2>1. pc'[Sender] \in {pc[Sender], "dead"} /\ pc'[Leader] = pc[Leader]
        /\ \A i \in Clients : pc'[i] \in {pc[i], "dead"}
    BY <1>3, <1>4, PartyNumbers
  <2> QED
    BY <1>1, <1>2, <1>3, <1>5, <2>1 DEF ResultInv, ClientEarly, LeaderEarly
<1>12. Watched
  BY <1>2, <1>3, <1>4, <1>5, PartyNumbers DEF Watched
<1> QED
  BY <1>6, <1>7, <1>8, <1>9, <1>10, <1>11, <1>12 DEF IInv

\* A send fails.
LEMMA SendFailsStep ==
  ASSUME IInv, NEW p \in Parties, SendFails(p)
  PROVE  IInv' /\ Watched
<1>1. /\ TypeInv /\ DeadInv /\ LeaderInv /\ SenderInv /\ ResultInv
      /\ \A i \in Clients : ClientInv(i)
  BY DEF IInv
<1>2. UNCHANGED <<inputs, accepting, dialing, connected, encodeOk, toParty, toSender, toLeader,
                  thread, share, GCT, Result, Multi_Intersection, crashes>>
  BY DEF SendFails, connVars, netVars, dataVars
<1>3. /\ crashes > 0 /\ p # Sender /\ pc[p] \in {"sending", "share"}
  BY <1>1, PartyNumbers DEF SendFails, Alive, DeadInv, TypeInv
<1>4. /\ \A q \in Parties : pc'[q] = IF q = p THEN "dead" ELSE pc[q]
      /\ pc' \in [Parties -> Labels]
  <2>1. \A q \in Parties : pc'[q] = IF q = p THEN "dead" ELSE pc[q]
    BY <1>1 DEF SendFails, Goto, TypeInv
  <2>2. pc' \in [Parties -> Labels]
    BY <1>1 DEF SendFails, Goto, TypeInv, Labels, ClientLabels
  <2> QED
    BY <2>1, <2>2
<1>5. /\ G' = G /\ O' = O /\ H' = H /\ Ideal!Common' = Ideal!Common
      /\ \A i : S(i)' = S(i) /\ C(i)' = C(i)
      /\ \A x : Sum(x)' = Sum(x)
      /\ Faulty => Faulty'
  BY <1>1, <1>2, Kept, FaultyKept DEF TypeInv
<1>6. TypeInv'
  BY <1>1, <1>2, <1>4 DEF TypeInv
<1>7. DeadInv'
  BY <1>2, <1>3 DEF DeadInv
<1>8. LeaderInv'
  BY <1>1, <1>2, <1>4, PartyNumbers DEF LeaderInv, LeaderEarly, LeaderLabels
<1>9. ASSUME NEW i \in Clients
      PROVE  ClientInv(i)'
  BY <1>1, <1>2, <1>4, <1>5, PartyNumbers DEF ClientInv, ClientEarly, ClientLabels
<1>10. SenderInv'
  <2>1. pc'[Sender] = pc[Sender] /\ pc'[Leader] \in {pc[Leader], "dead"}
        /\ \A i \in Clients : pc'[i] \in {pc[i], "dead"}
    BY <1>3, <1>4, PartyNumbers
  <2> QED
    BY <1>1, <1>2, <1>5, <2>1 DEF SenderInv, ClientEarly
<1>11. ResultInv'
  <2>1. pc'[Sender] = pc[Sender] /\ pc'[Leader] \in {pc[Leader], "dead"}
        /\ \A i \in Clients : pc'[i] \in {pc[i], "dead"}
    BY <1>3, <1>4, PartyNumbers
  <2> QED
    BY <1>1, <1>2, <1>3, <1>5, <2>1 DEF ResultInv, ClientEarly, LeaderEarly
<1>12. Watched
  BY <1>2, <1>3, <1>4, <1>5, PartyNumbers DEF Watched
<1> QED
  BY <1>6, <1>7, <1>8, <1>9, <1>10, <1>11, <1>12 DEF IInv

\* The leader's PSI breaks off.
LEMMA LeaderPsiErrorStep ==
  ASSUME IInv, LeaderPsiError
  PROVE  IInv' /\ Watched
<1>1. /\ TypeInv /\ DeadInv /\ LeaderInv /\ SenderInv /\ ResultInv
      /\ \A i \in Clients : ClientInv(i)
  BY DEF IInv
<1>2. UNCHANGED <<inputs, accepting, dialing, connected, encodeOk, toParty, toSender, toLeader,
                  thread, share, GCT, Result, crashes>>
  BY DEF LeaderPsiError, connVars, netVars
<1>3. /\ crashes > 0 /\ pc[Leader] \in {"psi", "psiWait"} /\ toLeader = << >>
  BY <1>1, PartyNumbers DEF LeaderPsiError, Alive, DeadInv, TypeInv
<1>4. /\ \E l \in {"close", "closeUnjoined"} : \A q \in Parties :
             pc'[q] = IF q = Leader THEN l ELSE pc[q]
      /\ Multi_Intersection' = {}
      /\ pc' \in [Parties -> Labels]
  <2>1. \E l \in {"close", "closeUnjoined"} : \A q \in Parties :
            pc'[q] = IF q = Leader THEN l ELSE pc[q]
    BY <1>1 DEF LeaderPsiError, Goto, TypeInv
  <2>2. Multi_Intersection' = {}
    BY DEF LeaderPsiError, PsiErrorResult
  <2>3. pc' \in [Parties -> Labels]
    BY <1>1 DEF LeaderPsiError, Goto, TypeInv, Labels, LeaderLabels
  <2> QED
    BY <2>1, <2>2, <2>3
<1>5. /\ G' = G /\ O' = O /\ H' = H /\ Ideal!Common' = Ideal!Common
      /\ \A i : S(i)' = S(i) /\ C(i)' = C(i)
      /\ \A x : Sum(x)' = Sum(x)
      /\ Faulty => Faulty'
  BY <1>1, <1>2, Kept, FaultyKept DEF TypeInv
<1>6. TypeInv'
  BY <1>1, <1>2, <1>4 DEF TypeInv
<1>7. DeadInv'
  BY <1>2, <1>3 DEF DeadInv
<1>8. LeaderInv'
  BY <1>1, <1>2, <1>4 DEF TypeInv, LeaderInv, LeaderEarly, LeaderLabels
<1>9. ASSUME NEW i \in Clients
      PROVE  ClientInv(i)'
  BY <1>1, <1>2, <1>4, <1>5, PartyNumbers DEF ClientInv, ClientEarly
<1>10. SenderInv'
  BY <1>1, <1>2, <1>4, <1>5, PartyNumbers DEF SenderInv, ClientEarly, SenderLabels
<1>11. ResultInv'
  <2>2. crashes # 0 /\ Faulty'
    BY <1>3, <1>5 DEF Faulty
  <2> QED
    BY <1>2, <1>3, <1>4, <2>2 DEF ResultInv
<1>12. Watched
  BY <1>2, <1>3, <1>4, <1>5, PartyNumbers DEF Watched
<1> QED
  BY <1>6, <1>7, <1>8, <1>9, <1>10, <1>11, <1>12 DEF IInv

\* The leader's solver throws and it closes its sockets.
LEMMA LeaderSolverThrowsStep ==
  ASSUME IInv, LeaderSolverThrows
  PROVE  IInv' /\ Watched
<1>1. /\ TypeInv /\ DeadInv /\ LeaderInv /\ SenderInv /\ ResultInv
      /\ \A i \in Clients : ClientInv(i)
  BY DEF IInv
<1>2. UNCHANGED <<inputs, accepting, dialing, connected, encodeOk, toParty, toSender, toLeader,
                  thread, share, GCT, Result>>
  BY DEF LeaderSolverThrows, connVars, netVars
<1>3. /\ pc[Leader] = "psi"
      /\ crashes' = crashes + 1 /\ crashes' \in 0 .. MaxCrashes /\ crashes' > 0
  <2>1. pc[Leader] = "psi" /\ crashes < MaxCrashes /\ crashes' = crashes + 1
    BY DEF LeaderSolverThrows
  <2>2. crashes \in 0 .. MaxCrashes /\ MaxCrashes \in Nat
    BY <1>1, UserAssumption DEF TypeInv
  <2> QED
    BY <2>1, <2>2
<1>4. /\ \A q \in Parties : pc'[q] = IF q = Leader THEN "close" ELSE pc[q]
      /\ Multi_Intersection' = {}
      /\ pc' \in [Parties -> Labels]
  <2>1. \A q \in Parties : pc'[q] = IF q = Leader THEN "close" ELSE pc[q]
    BY <1>1 DEF LeaderSolverThrows, Goto, TypeInv
  <2>2. Multi_Intersection' = {}
    BY DEF LeaderSolverThrows, PsiErrorResult
  <2>3. pc' \in [Parties -> Labels]
    BY <1>1 DEF LeaderSolverThrows, Goto, TypeInv, Labels, LeaderLabels
  <2> QED
    BY <2>1, <2>2, <2>3
<1>5. /\ G' = G /\ O' = O /\ H' = H /\ Ideal!Common' = Ideal!Common
      /\ \A i : S(i)' = S(i) /\ C(i)' = C(i)
      /\ \A x : Sum(x)' = Sum(x)
  BY <1>1, <1>2, Kept DEF TypeInv
<1>6. TypeInv'
  BY <1>1, <1>2, <1>3, <1>4 DEF TypeInv
<1>7. DeadInv'
  BY <1>3 DEF DeadInv
<1>8. LeaderInv'
  BY <1>1, <1>2, <1>3, <1>4 DEF TypeInv, LeaderInv, LeaderEarly, LeaderLabels
<1>9. ASSUME NEW i \in Clients
      PROVE  ClientInv(i)'
  BY <1>1, <1>2, <1>4, <1>5, PartyNumbers DEF ClientInv, ClientEarly
<1>10. SenderInv'
  BY <1>1, <1>2, <1>4, <1>5, PartyNumbers DEF SenderInv, ClientEarly, SenderLabels
<1>11. ResultInv'
  <2>2. crashes' # 0 /\ Faulty'
    BY <1>3 DEF Faulty
  <2> QED
    BY <1>1, <1>2, <1>3, <1>4, <1>5, <2>2, PartyNumbers DEF ResultInv, LeaderEarly, ClientEarly
<1>12. Watched
  <2>1. Faulty'
    BY <1>3 DEF Faulty
  <2> QED
    BY <1>2, <1>3, <1>4, <2>1, PartyNumbers DEF Watched
<1> QED
  BY <1>6, <1>7, <1>8, <1>9, <1>10, <1>11, <1>12 DEF IInv

\* Threads nobody joined end the process.
LEMMA LeaderUnjoinedStep ==
  ASSUME IInv, LeaderUnjoined
  PROVE  IInv' /\ Watched
<1>1. /\ TypeInv /\ DeadInv /\ LeaderInv /\ SenderInv /\ ResultInv
      /\ \A i \in Clients : ClientInv(i)
  BY DEF IInv
<1>2. UNCHANGED <<inputs, accepting, dialing, connected, encodeOk, toParty, toSender, toLeader,
                  thread, share, GCT, Result, Multi_Intersection, crashes>>
  BY DEF LeaderUnjoined, connVars, netVars, dataVars
<1>3. /\ pc[Leader] = "closeUnjoined"
  BY DEF LeaderUnjoined
<1>4. /\ \A q \in Parties : pc'[q] = IF q = Leader THEN "dead" ELSE pc[q]
      /\ pc' \in [Parties -> Labels]
  <2>1. \A q \in Parties : pc'[q] = IF q = Leader THEN "dead" ELSE pc[q]
    BY <1>1 DEF LeaderUnjoined, Goto, TypeInv
  <2>2. pc' \in [Parties -> Labels]
    BY <1>1, PartyNumbers DEF LeaderUnjoined, Goto, TypeInv, Labels, ClientLabels
  <2> QED
    BY <2>1, <2>2
<1>5. /\ G' = G /\ O' = O /\ H' = H /\ Ideal!Common' = Ideal!Common
      /\ \A i : S(i)' = S(i) /\ C(i)' = C(i)
      /\ \A x : Sum(x)' = Sum(x)
      /\ Faulty => Faulty'
  BY <1>1, <1>2, Kept, FaultyKept DEF TypeInv
<1>6. TypeInv'
  BY <1>1, <1>2, <1>4 DEF TypeInv
<1>7. DeadInv'
  BY <1>1, <1>2, <1>3, PartyNumbers DEF DeadInv
<1>8. LeaderInv'
  BY <1>1, <1>2, <1>4 DEF TypeInv, LeaderInv, LeaderEarly, LeaderLabels
<1>9. ASSUME NEW i \in Clients
      PROVE  ClientInv(i)'
  BY <1>1, <1>2, <1>4, <1>5, PartyNumbers DEF ClientInv, ClientEarly
<1>10. SenderInv'
  BY <1>1, <1>2, <1>4, <1>5, PartyNumbers DEF SenderInv, ClientEarly
<1>11. ResultInv'
  BY <1>1, <1>2, <1>3, <1>4, <1>5, PartyNumbers, Queues
     DEF ResultInv, SenderInv, ClientEarly, LeaderEarly
<1>12. Watched
  BY <1>2, <1>3, <1>4, <1>5, PartyNumbers DEF Watched
<1> QED
  BY <1>6, <1>7, <1>8, <1>9, <1>10, <1>11, <1>12 DEF IInv

\* The sender's PSI breaks off.
LEMMA SenderPsiErrorStep ==
  ASSUME IInv, SenderPsiError
  PROVE  IInv' /\ Watched
<1>1. /\ TypeInv /\ DeadInv /\ LeaderInv /\ SenderInv /\ ResultInv
      /\ \A i \in Clients : ClientInv(i)
  BY DEF IInv
<1>2. UNCHANGED <<inputs, accepting, dialing, connected, encodeOk, toParty, toSender, toLeader,
                  thread, share, GCT, Result, Multi_Intersection, crashes>>
  BY DEF SenderPsiError, connVars, netVars, dataVars
<1>3. /\ crashes > 0 /\ pc[Sender] = "psi" /\ toParty[Sender] = << >>
  <2>1. pc[Sender] = "psi" /\ toParty[Sender] = << >> /\ pc[Leader] \in {"dead", "done"}
    BY DEF SenderPsiError
  <2>2. crashes # 0
    BY <1>1, <2>1, PartyNumbers DEF DeadInv, ResultInv
  <2> QED
    BY <1>1, <2>1, <2>2 DEF TypeInv
<1>4. /\ \A q \in Parties : pc'[q] = IF q = Sender THEN "close" ELSE pc[q]
      /\ pc' \in [Parties -> Labels]
  <2>1. \A q \in Parties : pc'[q] = IF q = Sender THEN "close" ELSE pc[q]
    BY <1>1 DEF SenderPsiError, Goto, TypeInv
  <2>2. pc' \in [Parties -> Labels]
    BY <1>1, PartyNumbers DEF SenderPsiError, Goto, TypeInv, Labels, SenderLabels
  <2> QED
    BY <2>1, <2>2
<1>5. /\ G' = G /\ O' = O /\ H' = H /\ Ideal!Common' = Ideal!Common
      /\ \A i : S(i)' = S(i) /\ C(i)' = C(i)
      /\ \A x : Sum(x)' = Sum(x)
      /\ Faulty => Faulty'
  BY <1>1, <1>2, Kept, FaultyKept DEF TypeInv
<1>6. TypeInv'
  BY <1>1, <1>2, <1>4 DEF TypeInv
<1>7. DeadInv'
  BY <1>2, <1>3 DEF DeadInv
<1>8. LeaderInv'
  BY <1>1, <1>2, <1>4, PartyNumbers DEF LeaderInv, LeaderEarly
<1>9. ASSUME NEW i \in Clients
      PROVE  ClientInv(i)'
  BY <1>1, <1>2, <1>4, <1>5, PartyNumbers DEF ClientInv, ClientEarly
<1>10. SenderInv'
  BY <1>1, <1>2, <1>3, <1>4, PartyNumbers DEF SenderInv, ClientEarly, SenderLabels
<1>11. ResultInv'
  BY <1>1, <1>2, <1>3, <1>4, <1>5, PartyNumbers DEF ResultInv
<1>12. Watched
  BY <1>2, <1>4, <1>5, PartyNumbers DEF Watched
<1> QED
  BY <1>6, <1>7, <1>8, <1>9, <1>10, <1>11, <1>12 DEF IInv

-----------------------------------------------------------------------------
(* The theorems. *)

\* The invariant holds initially.
LEMMA InitInv ==
  ASSUME Init
  PROVE  IInv
<1>1. /\ inputs \in [Parties -> SUBSET Items]
      /\ \A p \in Parties : pc[p] = IF p = Leader THEN "accept" ELSE "dial"
      /\ \A p \in Parties : encodeOk[p] = TRUE
      /\ \A p \in Dialers : toParty[p] = << >> /\ thread[p] = "none"
      /\ \A i \in Clients : toSender[i] = << >> /\ share[i] = NoEncoding /\ GCT[i] = NoEncoding
      /\ accepting = 0 /\ dialing = 0 /\ toLeader = << >> /\ Multi_Intersection = {}
      /\ crashes = 0
  BY DEF Init
<1>2. TypeInv
  BY UserAssumption DEF Init, TypeInv, Labels, LeaderLabels, ClientLabels
<1>3. pc[Leader] = "accept" /\ pc[Sender] = "dial" /\ \A i \in Clients : pc[i] = "dial"
  BY <1>1, PartyNumbers
<1>4. DeadInv
  BY <1>1 DEF DeadInv
<1>5. LeaderInv
  BY <1>1, PartyNumbers DEF LeaderInv, LeaderLabels
<1>6. ASSUME NEW i \in Clients
      PROVE  ClientInv(i)
  BY <1>1, PartyNumbers DEF ClientInv, ClientLabels
<1>7. SenderInv
  BY <1>1, PartyNumbers DEF SenderInv, SenderLabels
<1>8. ResultInv
  BY <1>1, <1>3 DEF ResultInv
<1> QED
  BY <1>2, <1>4, <1>5, <1>6, <1>7, <1>8 DEF IInv

\* Every step keeps the invariant, and moves what Ideal sees as it should.
LEMMA NextInv ==
  ASSUME IInv, Next
  PROVE  IInv' /\ Watched
<1>1. CASE Connect
  BY <1>1, DialStep, LeaderAcceptStep, DialClientStep, DialDoneStep, ClientAcceptStep
     DEF Connect
<1>2. CASE LeaderStep
  BY <1>2, LeaderEncodeStep, ShareSendStep, ShareJoinStep, LeaderPsiStartStep, LeaderPsiEndStep,
     LeaderPsiErrorStep, LeaderUnjoinedStep DEF LeaderStep
<1>3. CASE ClientStep
  BY <1>3, ClientRecvStep, ClientEncodeStep DEF ClientStep
<1>4. CASE SenderStep
  BY <1>4, SenderRecvLeaderStep, SenderRecvClientStep, SenderDecodeStep, SenderPsiStep,
     SenderPsiErrorStep DEF SenderStep
<1>5. CASE Closing
  BY <1>5, CloseStep, RecvFailsStep, SendFailsStep DEF Closing
<1>6. CASE SendEnds
  BY <1>6, ShareSentStep, ClientCloseStep DEF SendEnds
<1>7. CASE (\E p \in Parties : Crash(p)) \/ LeaderSolverThrows
  BY <1>7, CrashStep, LeaderSolverThrowsStep
<1> QED
  BY <1>1, <1>2, <1>3, <1>4, <1>5, <1>6, <1>7 DEF Next

\* So does a step that changes nothing.
LEMMA StutterInv ==
  ASSUME IInv, UNCHANGED vars
  PROVE  IInv'
<1>1. UNCHANGED <<inputs, pc, accepting, dialing, connected, encodeOk, toParty, toSender,
                  toLeader, thread, share, GCT, Result, Multi_Intersection, crashes>>
  BY DEF vars, connVars, netVars, dataVars
<1>2. /\ G' = G /\ O' = O /\ H' = H /\ Ideal!Common' = Ideal!Common
      /\ \A i : S(i)' = S(i) /\ C(i)' = C(i)
      /\ \A x : Sum(x)' = Sum(x)
  BY <1>1, Kept
<1>3. TypeInv' /\ DeadInv' /\ LeaderInv'
  BY <1>1 DEF IInv, TypeInv, DeadInv, LeaderInv, LeaderEarly
<1>4. ASSUME NEW i \in Clients
      PROVE  ClientInv(i)'
  BY <1>1, <1>2 DEF IInv, ClientInv, ClientEarly
<1>5. SenderInv'
  BY <1>1, <1>2 DEF IInv, SenderInv, ClientEarly
<1>6. ResultInv'
  BY <1>1, <1>2 DEF IInv, ResultInv, ClientEarly, LeaderEarly, Faulty
<1> QED
  BY <1>3, <1>4, <1>5, <1>6 DEF IInv

\* The invariant holds in every reachable state.
THEOREM Invariance == Spec => []IInv
BY InitInv, NextInv, StutterInv, PTL DEF Spec

\* Every variable keeps its type: no socket ever holds more messages than the
\* protocol sends, and a client only ever has its own share.
THEOREM TypesKept == Spec => []TypeOK
<1>1. ASSUME IInv
      PROVE  TypeOK
  <2>1. /\ TypeInv /\ LeaderInv /\ SenderInv /\ ResultInv
        /\ \A i \in Clients : ClientInv(i)
    BY <1>1 DEF IInv
  <2>2. ASSUME NEW p \in Dialers
        PROVE  Len(toParty[p]) <= 2
    <3>1. toParty[p] \in {<< >>, <<S(p)>>, <<G>>, <<O>>, <<G, O>>}
      BY <2>1, PartyNumbers DEF SenderInv, ClientInv
    <3> QED
      BY <3>1, Lengths
  <2>3. ASSUME NEW i \in Clients
        PROVE  Len(toSender[i]) <= 1 /\ (share[i] = NoEncoding \/ share[i] = ShareOf(i))
    <3>1. toSender[i] \in {<< >>, <<C(i)>>} /\ share[i] \in {NoEncoding, ShareOf(i)}
      BY <2>1 DEF ClientInv
    <3> QED
      BY <3>1, Lengths
  <2>4. Len(toLeader) <= 1
    <3>1. toLeader \in {<< >>, <<H>>}
      BY <2>1 DEF ResultInv
    <3> QED
      BY <3>1, Lengths
  <2>5. Multi_Intersection \subseteq Items
    BY <2>1 DEF ResultInv, Ideal!Common
  <2>6. accepting \in 0 .. User_Num - 1
    BY <2>1 DEF TypeInv, LeaderInv, Leader
  <2>7. pc \in [Parties -> {"accept", "dial", "dialClients", "listen", "encode", "share",
                            "recvShare", "sending", "recvLeader", "recvClients", "psi",
                            "psiWait", "close", "closeUnjoined", "done", "dead"}]
    BY <2>1 DEF TypeInv, Labels, LeaderLabels, SenderLabels, ClientLabels
  <2> QED
    BY <2>1, <2>2, <2>3, <2>4, <2>5, <2>6, <2>7 DEF TypeOK, TypeInv
<1> QED
  BY <1>1, Invariance, PTL

\* Whatever dies and whatever encode fails, no item is ever in the leader's
\* result that some party does not hold.
THEOREM NeverWrong == Spec => []NoFalsePositive
<1>1. ASSUME IInv
      PROVE  NoFalsePositive
  BY <1>1 DEF IInv, ResultInv, NoFalsePositive
<1> QED
  BY <1>1, Invariance, PTL

\* A party that closes its sockets after a run without deaths has read what
\* was sent to it.
THEOREM Drained == Spec => []DrainedAtClose
<1>1. ASSUME IInv
      PROVE  DrainedAtClose
  <2> SUFFICES ASSUME crashes = 0
               PROVE  /\ \A p \in Dialers : pc[p] = "done" => toParty[p] = << >>
                      /\ pc[Sender] = "done" => \A i \in Clients : toSender[i] = << >>
                      /\ pc[Leader] = "done" => toLeader = << >>
    BY DEF DrainedAtClose
  <2>1. \A i \in Clients : pc[i] = "done" => toParty[i] = << >>
    BY <1>1 DEF IInv, ClientInv
  <2>2. pc[Sender] = "done" => toParty[Sender] = << >> /\ \A i \in Clients : toSender[i] = << >>
    BY <1>1 DEF IInv, SenderInv, ResultInv
  <2>3. pc[Leader] = "done" => toLeader = << >>
    BY <1>1 DEF IInv, ResultInv
  <2> QED
    BY <2>1, <2>2, <2>3, PartyNumbers
<1> QED
  BY <1>1, Invariance, PTL

\* The protocol implements the ideal functionality: the leader reports once,
\* the intersection of all sets, or after a failure possibly nothing.
THEOREM Implements == Spec => ImplementsIdeal
<1>1. ASSUME Init
      PROVE  Ideal!IdealInit
  <2>1. pc[Leader] = "accept" /\ ~ Faulty /\ inputs \in [Parties -> SUBSET Items]
    BY <1>1, PartyNumbers DEF Init, Faulty
  <2> QED
    BY <2>1 DEF Ideal!IdealInit
<1>2. ASSUME IInv, Next
      PROVE  [Ideal!IdealNext]_(Ideal!idealVars)
  <2>1. Watched /\ ResultInv
    BY <1>2, NextInv DEF IInv
  <2>2. CASE pc[Leader] # "done" /\ pc'[Leader] = "done"
    <3>1. /\ inputs' = inputs /\ pc[Leader] = "close"
          /\ Multi_Intersection' = Multi_Intersection
          /\ Faulty' = Faulty
      BY <2>1, <2>2 DEF Watched, Faulty
    <3>2. Multi_Intersection \in IF Faulty THEN {Ideal!Common, {}} ELSE {Ideal!Common}
      BY <2>1, <3>1 DEF ResultInv
    <3>3. Ideal!Report
      BY <2>2, <3>1, <3>2 DEF Ideal!Report
    <3> QED
      BY <3>3 DEF Ideal!IdealNext
  <2>3. CASE ~ (pc[Leader] # "done" /\ pc'[Leader] = "done")
    <3>1. /\ inputs' = inputs /\ (Faulty => Faulty')
          /\ (pc'[Leader] = "done") = (pc[Leader] = "done")
          /\ (IF pc'[Leader] = "done" THEN Multi_Intersection' ELSE {})
               = (IF pc[Leader] = "done" THEN Multi_Intersection ELSE {})
      BY <2>1, <2>3 DEF Watched
    <3>2. CASE Faulty' = Faulty
      BY <3>1, <3>2 DEF Ideal!idealVars
    <3>3. CASE Faulty' = TRUE
      BY <3>1, <3>3 DEF Ideal!Fault, Ideal!IdealNext
    <3>4. Faulty \in BOOLEAN /\ Faulty' \in BOOLEAN
      BY DEF Faulty
    <3> QED
      BY <3>1, <3>2, <3>3, <3>4
  <2> QED
    BY <2>2, <2>3
<1>3. ASSUME UNCHANGED vars
      PROVE  UNCHANGED Ideal!idealVars
  BY <1>3 DEF vars, dataVars, Ideal!idealVars, Faulty
<1> QED
  BY <1>1, <1>2, <1>3, Invariance, PTL DEF Spec, ImplementsIdeal, Ideal!IdealSpec

=============================================================================
