---------------------------- MODULE StartupProofs ----------------------------
(***************************************************************************)
(* Theorems about Startup, for every set of addresses (sequences of        *)
(* tokens) the flags may have.                                             *)
(***************************************************************************)
EXTENDS Startup, LeastNumber, SequenceTheorems, TLAPS

-----------------------------------------------------------------------------
(* strings.SplitN                                                          *)

(* i is the first place of sep in s.                                       *)
FirstAt(s, sep, i) == i \in 1 .. Len(s) /\ s[i] = sep /\ \A j \in 1 .. i - 1 : s[j] # sep

(* What follows place i.                                                   *)
LEMMA SuffixOfSeq ==
  ASSUME NEW s \in Seq(STRING), NEW i \in 1 .. Len(s)
  PROVE  /\ SubSeq(s, i + 1, Len(s)) \in Seq(STRING)
         /\ Len(SubSeq(s, i + 1, Len(s))) = Len(s) - i
         /\ \A j \in 1 .. Len(s) - i : SubSeq(s, i + 1, Len(s))[j] = s[i + j]
<1> DEFINE m == i + 1
           n == Len(s)
           t == SubSeq(s, m, n)
<1>1. n \in Nat /\ \A j \in 1 .. n : s[j] \in STRING
  BY LenProperties, ElementOfSeq
<1>2. m \in Int /\ n \in Int /\ \A j \in m .. n : s[j] \in STRING
  BY <1>1
<1>3. n - m + 1 = n - i /\ (m <= n => n - m + 1 = n - i) /\ (~(m <= n) => n - i = 0)
  BY <1>1
<1>4. \A j \in 1 .. n - i : m + j - 1 = i + j
  BY <1>1
<1> HIDE DEF m, n
<1>5. /\ t \in Seq(STRING)
      /\ Len(t) = IF m <= n THEN n - m + 1 ELSE 0
      /\ \A j \in 1 .. n - m + 1 : t[j] = s[m + j - 1]
  BY <1>2, SubSeqProperties
<1> HIDE DEF t
<1>6. Len(t) = n - i
  BY <1>3, <1>5
<1>7. \A j \in 1 .. n - i : t[j] = s[i + j]
  BY <1>3, <1>4, <1>5
<1> QED BY <1>5, <1>6, <1>7 DEF m, n, t

(* sep splits s at place i into p and q.                                   *)
Splits(s, sep, i, p, q) ==
  /\ FirstAt(s, sep, i) /\ SplitN(s, sep) = <<p, q>>
  /\ p \in Seq(STRING) /\ q \in Seq(STRING)
  /\ Len(p) = i - 1 /\ \A j \in 1 .. i - 1 : p[j] = s[j]
  /\ Len(q) = Len(s) - i /\ \A j \in 1 .. Len(s) - i : q[j] = s[i + j]

(* Without the separator there is one part.                                *)
LEMMA SplitNone ==
  ASSUME NEW s \in Seq(STRING), NEW sep, \A i \in 1 .. Len(s) : s[i] # sep
  PROVE  SplitN(s, sep) = <<s>>
<1>1. {i \in DOMAIN s : s[i] = sep} = {}
  BY LenProperties
<1> QED BY <1>1 DEF SplitN

(* Else there are two, before and after its first place.                   *)
LEMMA SplitFirst ==
  ASSUME NEW s \in Seq(STRING), NEW sep, NEW i, FirstAt(s, sep, i)
  PROVE  Splits(s, sep, i, SubSeq(s, 1, i - 1), SubSeq(s, i + 1, Len(s)))
<1> DEFINE at == {j \in DOMAIN s : s[j] = sep}
<1>1. Len(s) \in Nat /\ DOMAIN s = 1 .. Len(s) /\ \A j \in 1 .. Len(s) : s[j] \in STRING
  BY LenProperties, ElementOfSeq
<1>2. i \in at /\ at # {} /\ \A j \in at : i <= j
  BY <1>1 DEF FirstAt
<1>3. \A k \in at : (\A j \in at : k <= j) => k = i
  BY <1>1, <1>2
<1>4. (CHOOSE k \in at : \A j \in at : k <= j) = i
  BY <1>2, <1>3
<1>5. SplitN(s, sep) = <<SubSeq(s, 1, i - 1), SubSeq(s, i + 1, Len(s))>>
  BY <1>2, <1>4 DEF SplitN
<1>6. /\ SubSeq(s, 1, i - 1) \in Seq(STRING)
      /\ Len(SubSeq(s, 1, i - 1)) = i - 1
      /\ \A j \in 1 .. i - 1 : SubSeq(s, 1, i - 1)[j] = s[j]
  <2>1. 1 \in Int /\ i - 1 \in Int /\ \A j \in 1 .. i - 1 : s[j] \in STRING
    BY <1>1 DEF FirstAt
  <2> HIDE DEF at
  <2> QED BY <1>1, <2>1, SubSeqProperties DEF FirstAt
<1> HIDE DEF at
<1>7. i \in 1 .. Len(s)
  BY DEF FirstAt
<1> QED BY <1>5, <1>6, <1>7, SuffixOfSeq DEF Splits

(* A separator that occurs has a first place.                              *)
LEMMA FirstExists ==
  ASSUME NEW s \in Seq(STRING), NEW sep
  PROVE  (\A i \in 1 .. Len(s) : s[i] # sep) \/ \E i \in 1 .. Len(s) : FirstAt(s, sep, i)
<1> DEFINE at == {j \in 1 .. Len(s) : s[j] = sep}
<1> SUFFICES ASSUME at # {}
             PROVE  \E i \in 1 .. Len(s) : FirstAt(s, sep, i)
  OBVIOUS
<1>1. Len(s) \in Nat
  BY LenProperties
<1>2. at \in SUBSET Nat
  BY <1>1
<1>3. PICK i \in at : \A j \in at : i <= j
  <2> HIDE DEF at
  <2> QED BY <1>2, LeastNat
<1> QED BY <1>1, <1>3 DEF FirstAt

(* A sequence of one token.                                                *)
LEMMA Singleton ==
  ASSUME NEW S, NEW v \in Seq(S), Len(v) = 1
  PROVE  v = <<v[1]>>
OBVIOUS

(* A list of one part.                                                     *)
LEMMA OnePart ==
  ASSUME NEW x, NEW a, x = <<a>>
  PROVE  Len(x) = 1 /\ Len(x) # 2 /\ x[1] = a
OBVIOUS

(* A list of two parts.                                                    *)
LEMMA TwoParts ==
  ASSUME NEW x, NEW a, NEW b, x = <<a, b>>
  PROVE  Len(x) = 2 /\ x[1] = a /\ x[2] = b
OBVIOUS

(* What SplitN returns.                                                    *)
LEMMA SplitType ==
  ASSUME NEW s \in Seq(STRING), NEW sep
  PROVE  \/ SplitN(s, sep) = <<s>> /\ \A i \in 1 .. Len(s) : s[i] # sep
         \/ \E i \in 1 .. Len(s) : \E p, q \in Seq(STRING) : Splits(s, sep, i, p, q)
<1>1. CASE \A i \in 1 .. Len(s) : s[i] # sep
  BY <1>1, SplitNone
<1>2. ASSUME NEW i \in 1 .. Len(s), FirstAt(s, sep, i)
      PROVE  \E p, q \in Seq(STRING) : Splits(s, sep, i, p, q)
  <2>1. Splits(s, sep, i, SubSeq(s, 1, i - 1), SubSeq(s, i + 1, Len(s)))
    BY <1>2, SplitFirst
  <2> QED BY <2>1, Zenon DEF Splits
<1> QED BY <1>1, <1>2, FirstExists

-----------------------------------------------------------------------------
(* Addresses                                                               *)

(* An address without a suffix ...                                         *)
PlainNetwork(s, k) ==
  /\ Len(splitAddress(s).network) = k - 1 /\ ~splitAddress(s).tls
  /\ \A j \in 1 .. k - 1 : splitAddress(s).network[j] = s[j] /\ s[j] # "+"

(* ... and one whose suffix begins at place m.                             *)
SuffixedNetwork(s, k, m) ==
  /\ Len(splitAddress(s).network) = m - 1 /\ s[m] = "+"
  /\ splitAddress(s).tls <=> k = m + 2 /\ s[m + 1] = "tls"
  /\ \A j \in 1 .. m - 1 : splitAddress(s).network[j] = s[j] /\ s[j] # "+"

(* An address with a scheme, taken apart.                                  *)
LEMMA AddressParts ==
  ASSUME NEW s \in Seq(STRING), HasScheme(s)
  PROVE  /\ splitAddress(s).addr \in Seq(STRING) /\ splitAddress(s).tls \in BOOLEAN
         /\ \E k \in 1 .. Len(s) :
              /\ FirstAt(s, "://", k)
              /\ PlainNetwork(s, k) \/ \E m \in 1 .. k - 1 : SuffixedNetwork(s, k, m)
<1>0. Len(s) \in Nat
  BY LenProperties
<1>1. PICK k \in 1 .. Len(s) : \E p, q \in Seq(STRING) : Splits(s, "://", k, p, q)
  <2>1. SplitN(s, "://") # <<s>>
    BY OnePart, Zenon DEF HasScheme
  <2> QED BY <2>1, SplitType
<1>2. PICK p \in Seq(STRING), q \in Seq(STRING) : Splits(s, "://", k, p, q)
  BY <1>1
<1> DEFINE x == SplitN(p, "+")
<1>3. /\ splitAddress(s).network = x[1] /\ splitAddress(s).addr = q
      /\ splitAddress(s).tls = (Len(x) = 2 /\ x[2] = <<"tls">>)
  <2>1. SplitN(s, "://") = <<p, q>>
    BY <1>2 DEF Splits
  <2>2. SplitN(s, "://")[1] = p /\ SplitN(s, "://")[2] = q
    BY <2>1, TwoParts, Zenon
  <2> QED BY <2>2 DEF splitAddress
<1>4. splitAddress(s).tls \in BOOLEAN
  BY <1>3
<1> HIDE DEF x
<1>5. ASSUME x = <<p>>, \A j \in 1 .. Len(p) : p[j] # "+"
      PROVE  PlainNetwork(s, k)
  <2>1. Len(x) # 2 /\ x[1] = p
    BY <1>5, OnePart
  <2>2. splitAddress(s).network = p /\ ~splitAddress(s).tls
    BY <1>3, <2>1
  <2>3. Len(p) = k - 1 /\ \A j \in 1 .. k - 1 : p[j] = s[j] /\ s[j] # "+"
    BY <1>2, <1>5 DEF Splits
  <2> QED BY <2>2, <2>3 DEF PlainNetwork
<1>6. ASSUME NEW m \in 1 .. Len(p), NEW u \in Seq(STRING), NEW v \in Seq(STRING),
             Splits(p, "+", m, u, v)
      PROVE  m \in 1 .. k - 1 /\ SuffixedNetwork(s, k, m)
  <2>1. Len(x) = 2 /\ x[1] = u /\ x[2] = v
    BY <1>6, TwoParts DEF Splits, x
  <2>2. splitAddress(s).network = u /\ (splitAddress(s).tls <=> v = <<"tls">>)
    BY <1>3, <2>1
  <2>3. Len(p) = k - 1 /\ \A j \in 1 .. k - 1 : p[j] = s[j]
    BY <1>2 DEF Splits
  <2>4. /\ m \in 1 .. k - 1 /\ s[m] = "+" /\ Len(u) = m - 1
        /\ \A j \in 1 .. m - 1 : u[j] = s[j] /\ s[j] # "+"
    <3>1. p[m] = "+" /\ Len(u) = m - 1 /\ \A j \in 1 .. m - 1 : u[j] = p[j] /\ p[j] # "+"
      BY <1>6 DEF Splits, FirstAt
    <3>2. m \in 1 .. k - 1 /\ \A j \in 1 .. m - 1 : j \in 1 .. k - 1
      BY <1>0, <2>3
    <3> QED BY <2>3, <3>1, <3>2
  <2>5. Len(v) = k - 1 - m /\ (k - 1 - m = 1 => v[1] = s[m + 1])
    BY <1>0, <1>6, <2>3, <2>4 DEF Splits
  <2>6. v = <<"tls">> <=> Len(v) = 1 /\ v[1] = "tls"
    BY Singleton, OnePart
  <2>7. Len(v) = 1 /\ v[1] = "tls" <=> k = m + 2 /\ s[m + 1] = "tls"
    BY <1>0, <2>4, <2>5
  <2> QED BY <2>2, <2>4, <2>6, <2>7 DEF SuffixedNetwork
<1>7. (x = <<p>> /\ \A j \in 1 .. Len(p) : p[j] # "+")
      \/ \E m \in 1 .. Len(p) : \E u, v \in Seq(STRING) : Splits(p, "+", m, u, v)
  BY SplitType DEF x
<1>8. FirstAt(s, "://", k) /\ splitAddress(s).addr \in Seq(STRING)
  BY <1>2, <1>3 DEF Splits
<1> QED BY <1>4, <1>5, <1>6, <1>7, <1>8

(* TLS is used for the addresses that ask for it, among those whose scheme *)
(* is registered: the suffix is "tls", and nothing else.                   *)
LEMMA TlsAsAsked ==
  ASSUME NEW s \in Seq(STRING), HasScheme(s), Registered(splitAddress(s).network)
  PROVE  splitAddress(s).tls = AsksTLS(s)
<1> DEFINE n == splitAddress(s).network
<1>0. Len(s) \in Nat
  BY LenProperties
<1>1. PICK k \in 1 .. Len(s) :
        /\ FirstAt(s, "://", k)
        /\ PlainNetwork(s, k) \/ \E m \in 1 .. k - 1 : SuffixedNetwork(s, k, m)
  BY AddressParts
<1>2. Len(n) = 1 /\ n[1] \in Schemes
  BY DEF Registered, Schemes
<1>3. s[k] = "://" /\ \A j \in 1 .. k - 1 : s[j] # "://"
  BY <1>1 DEF FirstAt
<1>4. ASSUME PlainNetwork(s, k)
      PROVE  ~splitAddress(s).tls /\ ~AsksTLS(s)
  <2>1. k = 2 /\ ~splitAddress(s).tls
    BY <1>0, <1>2, <1>4 DEF PlainNetwork
  <2> QED BY <1>3, <2>1 DEF AsksTLS
<1>5. ASSUME NEW m \in 1 .. k - 1, SuffixedNetwork(s, k, m)
      PROVE  splitAddress(s).tls <=> AsksTLS(s)
  <2>1. m = 2 /\ s[2] = "+" /\ s[1] = n[1] /\ (splitAddress(s).tls <=> k = 4 /\ s[3] = "tls")
    BY <1>0, <1>2, <1>5 DEF SuffixedNetwork
  <2>2. s[1] # "+" /\ s[1] # "://"
    BY <1>2, <2>1 DEF Schemes, StdSchemes, RpcSchemes
  <2>3. ASSUME k = 4, s[3] = "tls"
        PROVE  AsksTLS(s)
    BY <1>0, <1>3, <2>1, <2>2, <2>3 DEF AsksTLS
  <2>4. ASSUME AsksTLS(s)
        PROVE  k = 4 /\ s[3] = "tls"
    <3>1. s[3] = "tls" /\ s[4] = "://" /\ Len(s) >= 4
      BY <2>4 DEF AsksTLS
    <3>2. k <= 4
      BY <1>0, <1>3, <3>1
    <3>3. k # 1 /\ k # 2 /\ k # 3
      BY <1>3, <2>1, <2>2, <3>1
    <3> QED BY <1>0, <3>1, <3>2, <3>3
  <2> QED BY <2>1, <2>3, <2>4
<1>6. splitAddress(s).tls \in BOOLEAN /\ AsksTLS(s) \in BOOLEAN
  BY AddressParts DEF AsksTLS
<1> QED BY <1>1, <1>4, <1>5, <1>6

(* An address as the help text describes it is taken.                      *)
LEMMA WellFormedIsRegistered ==
  ASSUME NEW s \in Seq(STRING), WellFormed(s)
  PROVE  HasScheme(s) /\ Registered(splitAddress(s).network)
<1> DEFINE n == splitAddress(s).network
<1>0. Len(s) \in Nat /\ DOMAIN s = 1 .. Len(s)
  BY LenProperties
<1>1. PICK i \in 1 .. Len(s) : s[i] = "://" /\ i > 1 /\ s[1] \in Schemes /\ (i = 2 \/ s[2] = "+")
  BY <1>0 DEF WellFormed, Schemes
<1>2. HasScheme(s)
  <2>1. PICK k \in 1 .. Len(s) : \E p, q \in Seq(STRING) : Splits(s, "://", k, p, q)
    BY <1>1, SplitType
  <2>2. PICK p \in Seq(STRING), q \in Seq(STRING) : Splits(s, "://", k, p, q)
    BY <2>1
  <2>3. SplitN(s, "://") = <<p, q>>
    BY <2>2 DEF Splits
  <2> QED BY <2>3, TwoParts, Zenon DEF HasScheme
<1>3. PICK k \in 1 .. Len(s) :
        /\ FirstAt(s, "://", k)
        /\ PlainNetwork(s, k) \/ \E m \in 1 .. k - 1 : SuffixedNetwork(s, k, m)
  BY <1>2, AddressParts
<1>4. s[1] # "+" /\ s[1] # "://"
  BY <1>1 DEF Schemes, StdSchemes, RpcSchemes
<1>5. k <= i /\ k >= 2
  BY <1>0, <1>1, <1>3, <1>4 DEF FirstAt
<1>6. Len(n) = 1 /\ n[1] = s[1]
  <2>1. CASE PlainNetwork(s, k)
    <3>1. Len(n) = k - 1 /\ \A j \in 1 .. k - 1 : n[j] = s[j] /\ s[j] # "+"
      BY <2>1 DEF PlainNetwork
    <3>2. k = 2
      BY <1>0, <1>1, <1>5, <3>1
    <3> QED BY <3>1, <3>2
  <2>2. ASSUME NEW m \in 1 .. k - 1, SuffixedNetwork(s, k, m)
        PROVE  Len(n) = 1 /\ n[1] = s[1]
    <3>1. Len(n) = m - 1 /\ s[m] = "+" /\ \A j \in 1 .. m - 1 : n[j] = s[j] /\ s[j] # "+"
      BY <2>2 DEF SuffixedNetwork
    <3>2. m >= 2
      BY <1>0, <1>4, <3>1
    <3>3. m = 2
      BY <1>0, <1>1, <1>5, <3>1, <3>2
    <3> QED BY <3>1, <3>3
  <2> QED BY <1>3, <2>1, <2>2
<1> QED BY <1>1, <1>2, <1>6 DEF Registered, Schemes

(* Where the creators of an address may listen or dial.                    *)
LEMMA EndpointType ==
  ASSUME NEW s \in Seq(STRING), HasScheme(s), Registered(splitAddress(s).network),
         NEW network \in Schemes
  PROVE  /\ Endpoint(network, splitAddress(s)) \in Endpoints
         /\ Endpoint(network, splitAddress(s)) # Nowhere
         /\ Endpoint(network, splitAddress(s)).tls = splitAddress(s).tls
<1> DEFINE a == splitAddress(s)
<1>1. a.addr \in Seq(STRING) /\ a.tls \in BOOLEAN
  BY AddressParts
<1> HIDE DEF a
<1>2. Endpoint(network, a).network # Nowhere.network
  BY DEF Endpoint, Nowhere, Schemes, StdSchemes, RpcSchemes
<1> QED BY <1>1, <1>2 DEF Endpoint, Endpoints, a

(* What the creator of each scheme makes of an address.                    *)
LEMMA CreatorsAgree ==
  ASSUME NEW s \in Seq(STRING), HasScheme(s), Registered(splitAddress(s).network)
  PROVE  \E kind \in Kinds, network \in Schemes, k \in {KeyLogWriter(splitAddress(s))} :
           LET at == Endpoint(network, splitAddress(s))
           IN  /\ ClientSession(s) = [kind |-> kind, at |-> at, keylog |-> k]
               /\ IF kind = "grpc"
                  THEN ServerSession(s) =
                         [kind |-> kind, at |-> at, listener |-> Nowhere, keylog |-> k]
                  ELSE ServerSession(s) =
                         [kind |-> kind, at |-> Nowhere, listener |-> at, keylog |-> k]
<1> DEFINE a == splitAddress(s)
           n == a.network[1]
<1>1. n \in Schemes
  BY DEF Registered, Schemes
<1>2. "tcp" \in Schemes /\ Kinds = {"std", "capnp", "mdcapnp", "grpc"}
  BY DEF Schemes, StdSchemes, RpcSchemes, Kinds
<1>3. CASE n = "capnp"
  <2>1. ServerSession(s) = capnpServer(a) /\ ClientSession(s) = capnpClient(a)
    BY <1>3 DEF ServerSession, ClientSession
  <2> QED BY <1>2, <2>1 DEF capnpServer, capnpClient, Listening, Dialing
<1>4. CASE n = "mdcapnp"
  <2>1. ServerSession(s) = mdcapnpServer(a) /\ ClientSession(s) = mdcapnpClient(a)
    BY <1>4 DEF ServerSession, ClientSession
  <2> QED BY <1>2, <2>1 DEF mdcapnpServer, mdcapnpClient, Listening, Dialing
<1>5. CASE n = "grpc"
  <2>1. ServerSession(s) = grpcServer(a) /\ ClientSession(s) = grpcClient(a)
    BY <1>5 DEF ServerSession, ClientSession
  <2> QED BY <1>2, <2>1 DEF grpcServer, grpcClient, Dialing
<1>6. CASE n \notin RpcSchemes
  <2>1. ServerSession(s) = netListen(a) /\ ClientSession(s) = netDial(a)
    BY <1>6 DEF ServerSession, ClientSession, RpcSchemes
  <2> QED BY <1>1, <1>2, <2>1 DEF netListen, netDial, Listening, Dialing
<1> QED BY <1>3, <1>4, <1>5, <1>6 DEF RpcSchemes

(* The sessions made of an address with a registered scheme, and the       *)
(* server's once it has listened.                                          *)
LEMMA SessionTypes ==
  ASSUME NEW s \in Seq(STRING), HasScheme(s), Registered(splitAddress(s).network)
  PROVE  /\ ServerSession(s) \in ServerSessions /\ ClientSession(s) \in ClientSessions
         /\ Bootstrap(ServerSession(s)) \in ServerSessions
         /\ Bootstrap(ServerSession(s)).kind = ClientSession(s).kind
         /\ Bootstrap(ServerSession(s)).listener = ClientSession(s).at
         /\ ClientSession(s).at.tls = splitAddress(s).tls
         /\ Bootstrap(ServerSession(s)).keylog => keylog = "ok"
         /\ ClientSession(s).keylog => keylog = "ok"
<1> DEFINE a == splitAddress(s)
           k == KeyLogWriter(a)
<1>1. a.tls \in BOOLEAN
  BY AddressParts
<1>2. k \in BOOLEAN /\ (k => keylog = "ok")
  BY <1>1 DEF KeyLogWriter
<1>3. PICK kind \in Kinds, network \in Schemes :
        LET at == Endpoint(network, a)
        IN  /\ ClientSession(s) = [kind |-> kind, at |-> at, keylog |-> k]
            /\ IF kind = "grpc"
               THEN ServerSession(s) =
                      [kind |-> kind, at |-> at, listener |-> Nowhere, keylog |-> k]
               ELSE ServerSession(s) =
                      [kind |-> kind, at |-> Nowhere, listener |-> at, keylog |-> k]
  BY CreatorsAgree
<1> DEFINE at == Endpoint(network, a)
<1>4. at \in Endpoints /\ Nowhere \in Endpoints /\ at.tls = a.tls
  BY EndpointType DEF Endpoints
<1>5. ClientSession(s) = [kind |-> kind, at |-> at, keylog |-> k]
  BY <1>3
<1>6. /\ kind = "grpc" => ServerSession(s) =
                            [kind |-> kind, at |-> at, listener |-> Nowhere, keylog |-> k]
      /\ kind # "grpc" => ServerSession(s) =
                            [kind |-> kind, at |-> Nowhere, listener |-> at, keylog |-> k]
  BY <1>3
<1> HIDE DEF a, k, at
<1>7. ServerSession(s) \in ServerSessions
  BY <1>2, <1>4, <1>6 DEF ServerSessions
<1>8. /\ Bootstrap(ServerSession(s)) \in ServerSessions
      /\ Bootstrap(ServerSession(s)).kind = kind
      /\ Bootstrap(ServerSession(s)).listener = at
      /\ Bootstrap(ServerSession(s)).keylog = k
  <2>1. CASE kind = "grpc"
    <3>1. Bootstrap(ServerSession(s)) = [kind |-> kind, at |-> at, listener |-> at, keylog |-> k]
      BY <1>6, <2>1 DEF Bootstrap
    <3> QED BY <1>2, <1>4, <3>1 DEF ServerSessions
  <2>2. CASE kind # "grpc"
    <3>1. Bootstrap(ServerSession(s)) =
            [kind |-> kind, at |-> Nowhere, listener |-> at, keylog |-> k]
      BY <1>6, <2>2 DEF Bootstrap
    <3> QED BY <1>2, <1>4, <3>1 DEF ServerSessions
  <2> QED BY <2>1, <2>2
<1>9. ClientSession(s) \in ClientSessions
  BY <1>2, <1>4, <1>5 DEF ClientSessions
<1> QED BY <1>2, <1>4, <1>5, <1>7, <1>8, <1>9 DEF a

-----------------------------------------------------------------------------
(* What main has done when it is where it is.                              *)
Progress ==
  /\ pc = "newServer" => server = NoSession /\ client = NoSession /\ ~failed
  /\ pc \in {"newClient", "accept", "serving"} => ServerArgsOK
  /\ pc \in {"newClient", "accept"} => server = ServerSession(listen)
  /\ pc \in {"newServer", "newClient"} => client = NoSession
  /\ pc \in {"accept", "serving"} => ClientArgsOK /\ client = ClientSession(connect)
  /\ pc = "serving" => server = Bootstrap(ServerSession(listen))
  /\ pc = "exit" => failed \/ ~ServerArgsOK \/ ~ClientArgsOK

(* The inductive invariant.                                                *)
IInv == TypeOK /\ Progress

(* It holds in the initial states.                                       *)
LEMMA InitIInv == Init => IInv
BY DEF Init, IInv, TypeOK, Progress, ServerSessions, ClientSessions

(* The arguments do not change, and what depends on them does not, either. *)
LEMMA ArgsStay ==
  ASSUME UNCHANGED args
  PROVE  /\ ServerSession(listen)' = ServerSession(listen)
         /\ ClientSession(connect)' = ClientSession(connect)
         /\ Bootstrap(ServerSession(listen))' = Bootstrap(ServerSession(listen))
         /\ ServerArgsOK' = ServerArgsOK /\ ClientArgsOK' = ClientArgsOK
<1>1. /\ ServerSession(listen)' = ServerSession(listen)
      /\ ClientSession(connect)' = ClientSession(connect)
  BY DEF args, ServerSession, ClientSession, netListen, capnpServer, mdcapnpServer, grpcServer,
         netDial, capnpClient, mdcapnpClient, grpcClient, Listening, Dialing, KeyLogWriter
<1>2. ServerArgsOK' = ServerArgsOK /\ ClientArgsOK' = ClientArgsOK
  BY DEF args, ServerArgsOK, ClientArgsOK, getServerTLSConfig, getClientTLSConfig
<1>3. Bootstrap(ServerSession(listen))' = Bootstrap(ServerSession(listen))
  BY <1>1 DEF Bootstrap
<1> QED BY <1>1, <1>2, <1>3

(* Every step keeps it.                                                    *)
LEMMA NextIInv ==
  ASSUME IInv, [Next]_vars
  PROVE  IInv'
<1>1. UNCHANGED args
  BY DEF Next, newServerSession, newServerSessionFail, newClientSession, newClientSessionFail,
         AcceptStream, AcceptStreamFail, Exit, vars
<1>2. listen \in Seq(STRING) /\ connect \in Seq(STRING)
  BY StartupAssumption DEF IInv, TypeOK
<1>3. ServerArgsOK => /\ ServerSession(listen) \in ServerSessions
                      /\ Bootstrap(ServerSession(listen)) \in ServerSessions
  BY <1>2, SessionTypes DEF ServerArgsOK
<1>4. ClientArgsOK => ClientSession(connect) \in ClientSessions
  BY <1>2, SessionTypes DEF ClientArgsOK
<1> USE DEF IInv, TypeOK, Progress
<1>5. CASE newServerSession
  BY <1>1, <1>3, <1>5, ArgsStay DEF newServerSession, args
<1>6. CASE newServerSessionFail
  <2>1. failed' = ServerArgsOK /\ pc' = "exit" /\ UNCHANGED <<args, server, client>>
    BY <1>6 DEF newServerSessionFail, Exit
  <2>2. failed' \in BOOLEAN
    BY <2>1 DEF ServerArgsOK
  <2>3. TypeOK'
    BY <2>1, <2>2 DEF args
  <2>4. failed' \/ ~ServerArgsOK'
    BY <1>1, <2>1, ArgsStay
  <2> QED BY <2>1, <2>3, <2>4
<1>7. CASE newClientSession
  BY <1>1, <1>4, <1>7, ArgsStay DEF newClientSession, args
<1>8. CASE newClientSessionFail
  <2>1. pc' = "exit" /\ ~ClientArgsOK /\ UNCHANGED <<args, server, client, failed>>
    BY <1>8 DEF newClientSessionFail, Exit
  <2>2. TypeOK'
    BY <2>1 DEF args
  <2>3. ~ClientArgsOK'
    BY <1>1, <2>1, ArgsStay
  <2> QED BY <2>1, <2>2, <2>3
<1>9. CASE AcceptStream
  <2>1. pc = "accept" /\ pc' = "serving" /\ UNCHANGED <<args, client, failed>>
    BY <1>9 DEF AcceptStream
  <2>2. ServerArgsOK /\ server' = Bootstrap(ServerSession(listen))
    BY <1>9, <2>1 DEF AcceptStream
  <2>3. TypeOK'
    BY <1>3, <2>1, <2>2 DEF args
  <2> QED BY <1>1, <2>1, <2>2, <2>3, ArgsStay
<1>10. CASE AcceptStreamFail
  BY <1>1, <1>10, ArgsStay DEF AcceptStreamFail, Exit, args
<1>11. CASE UNCHANGED vars
  BY <1>1, <1>11, ArgsStay DEF vars, args
<1> QED BY <1>5, <1>6, <1>7, <1>8, <1>9, <1>10, <1>11 DEF Next

(* The invariant holds in every reachable state.                           *)
LEMMA Invariance == Spec => []IInv
<1> QED BY InitIInv, NextIInv, PTL DEF Spec

-----------------------------------------------------------------------------
(* Every variable keeps its range; a session is made of the parts of an    *)
(* address.                                                                *)
THEOREM TypeCorrect == Spec => []TypeOK
<1>1. IInv => TypeOK
  BY DEF IInv
<1> QED BY <1>1, Invariance, PTL

(* A proxy that accepts streams uses TLS on the sides whose address asks   *)
(* for it, and on no other, with the files that TLS needs.                 *)
THEOREM Secure == Spec => []SecureAsAsked
<1>1. IInv => SecureAsAsked
  <2> SUFFICES ASSUME IInv, pc = "serving"
               PROVE  /\ server.listener.tls = AsksTLS(listen)
                      /\ client.at.tls = AsksTLS(connect)
                      /\ server.listener.tls => cert = "ok"
                      /\ client.at.tls => ca \notin {"unreadable", "notPEM"}
                      /\ server.keylog \/ client.keylog => keylog = "ok"
    BY DEF SecureAsAsked
  <2>1. listen \in Seq(STRING) /\ connect \in Seq(STRING)
    BY StartupAssumption DEF IInv, TypeOK
  <2>2. /\ ServerArgsOK /\ server = Bootstrap(ServerSession(listen))
        /\ ClientArgsOK /\ client = ClientSession(connect)
    BY DEF IInv, Progress
  <2>3. /\ server.listener.tls = splitAddress(listen).tls
        /\ server.listener.tls = AsksTLS(listen)
        /\ server.keylog => keylog = "ok"
    BY <2>1, <2>2, SessionTypes, TlsAsAsked DEF ServerArgsOK
  <2>4. /\ client.at.tls = splitAddress(connect).tls /\ client.at.tls = AsksTLS(connect)
        /\ client.keylog => keylog = "ok"
    BY <2>1, <2>2, SessionTypes, TlsAsAsked DEF ClientArgsOK
  <2>5. server.listener.tls => cert = "ok"
    BY <2>2, <2>3 DEF ServerArgsOK, getServerTLSConfig
  <2>6. client.at.tls => ca \notin {"unreadable", "notPEM"}
    BY <2>2, <2>4 DEF ClientArgsOK, getClientTLSConfig
  <2> QED BY <2>3, <2>4, <2>5, <2>6
<1> QED BY <1>1, Invariance, PTL

(* A proxy exits only if listening or accepting failed, an                 *)
(* address is not of the form the flags describe, or a file that TLS needs *)
(* is missing or broken on a side that asks for TLS.                       *)
THEOREM ExitsForCause == Spec => []ExitHasCause
<1>1. IInv => ExitHasCause
  <2> SUFFICES ASSUME IInv, pc = "exit", WellFormed(listen), WellFormed(connect), ~failed
               PROVE  \/ AsksTLS(listen) /\ cert = "bad"
                      \/ AsksTLS(connect) /\ ca \in {"unreadable", "notPEM"}
    BY DEF ExitHasCause
  <2>1. /\ listen \in Seq(STRING) /\ connect \in Seq(STRING)
        /\ cert \in CertFiles /\ ca \in CAFiles
    BY StartupAssumption DEF IInv, TypeOK
  <2>2. /\ HasScheme(listen) /\ Registered(splitAddress(listen).network)
        /\ HasScheme(connect) /\ Registered(splitAddress(connect).network)
    BY <2>1, WellFormedIsRegistered
  <2>3. ~getServerTLSConfig(listen) \/ ~getClientTLSConfig(connect)
    BY <2>2 DEF IInv, Progress, ServerArgsOK, ClientArgsOK
  <2>4. splitAddress(listen).tls = AsksTLS(listen) /\ splitAddress(connect).tls = AsksTLS(connect)
    BY <2>1, <2>2, TlsAsAsked
  <2> QED BY <2>1, <2>3, <2>4 DEF getServerTLSConfig, getClientTLSConfig, CertFiles, CAFiles
<1> QED BY <1>1, Invariance, PTL

(* Two proxies given the same address meet: the creators of the two sides, *)
(* written scheme by scheme, agree on the protocol, the network and TLS,   *)
(* and by the time main serves the listener is where the client dials.     *)
THEOREM SidesMatch == Spec => []SidesAgree
<1>1. IInv => SidesAgree
  <2> SUFFICES ASSUME IInv, pc = "serving", listen = connect
               PROVE  client.kind = server.kind /\ client.at = server.listener
    BY DEF SidesAgree
  <2>1. /\ ServerArgsOK /\ server = Bootstrap(ServerSession(listen))
        /\ client = ClientSession(listen) /\ listen \in Seq(STRING)
    BY StartupAssumption DEF IInv, TypeOK, Progress
  <2> QED BY <2>1, SessionTypes DEF ServerArgsOK
<1> QED BY <1>1, Invariance, PTL

=============================================================================
