-------------------------- MODULE Outbound_proofs ---------------------------
(* The listeners and the providers, for every value of their constants:      *)
(* whom the handshakes let in and where they lead (Handshake), and the       *)
(* content of a provider (Provider).                                         *)
EXTENDS Handshake, Provider, TLAPS

(***************************************************************************)
(* Handshake: who is let in.                                               *)
(***************************************************************************)
Known == UNION UserSets

(* The shape of the handler and of the client.                               *)
IsHandler(s) ==
  s = [kind |-> s.kind, st |-> s.st, auth |-> s.auth, trusted |-> s.trusted, login |-> s.login, to |-> s.to, data |-> s.data]
IsClient(c) ==
  c = [kind |-> c.kind, login |-> c.login, dst |-> c.dst, cmd |-> c.cmd, st |-> c.st, data |-> c.data]

(* Before the credentials are looked at, nothing is handed to the tunnel;    *)
(* afterwards a login stands behind what is.  The last conjunct of each      *)
(* state is what the next action needs.                                      *)
HandlerOK(s) ==
  /\ IsHandler(s)
  /\ s.auth \subseteq Known
  /\ s.st \in {"idle", "peek", "method", "auth", "socks4"} => s.to = <<>>
  /\ s.st = "request" /\ s.auth # {} => s.login \in Known
  /\ s.st = "http" /\ ~s.trusted => s.to = <<>>
  /\ s.st = "http" /\ s.trusted /\ s.kind # "open" /\ s.auth # {} => s.login \in Known
  /\ s.to # <<>> /\ s.kind # "open" /\ s.auth # {} => s.login \in Known

VerdictsOK == \A l \in DOMAIN verdicts : verdicts[l] \in BOOLEAN /\ (verdicts[l] => l \in Known)

HandshakeInvariant ==
  /\ HandlerOK(sv)
  /\ IsClient(cl) /\ (cl.st = "idle" => sv.st = "idle")
  /\ users \subseteq Known
  /\ VerdictsOK

(* A step of the client changes nothing but its own state, and never goes    *)
(* back to the beginning.                                                    *)
ClientOnly ==
  /\ UNCHANGED <<sv, users, verdicts>>
  /\ IsClient(cl') /\ (cl'.st = "idle" => cl.st = "idle")

(* A step of the client alone keeps the invariant of handlers.             *)
LEMMA ClientOnlyKeeps ==
  ASSUME HandshakeInvariant, ClientOnly
  PROVE  HandshakeInvariant'
BY Zenon DEF HandshakeInvariant, ClientOnly, HandlerOK, IsHandler, VerdictsOK

(* The steps of a client are such steps.                                   *)
LEMMA ClientSteps ==
  ASSUME HandshakeInvariant, ClientStep \/ ClientData
  PROVE  ClientOnly
<1> USE DEF HandshakeInvariant, IsClient, ClientOnly
<1>1. CASE ClientMethod
  BY Zenon, <1>1 DEF ClientMethod, Fails
<1>2. CASE ClientAuth
  BY Zenon, <1>2 DEF ClientAuth, Fails
<1>3. CASE ClientReply
  BY <1>3 DEF ClientReply, Fails
<1>4. CASE ClientLost
  BY Zenon, <1>4 DEF ClientLost, Fails
<1>5. CASE ClientData
  BY Zenon, <1>5 DEF ClientData
<1>6. QED
  BY Zenon, <1>1, <1>2, <1>3, <1>4, <1>5 DEF ClientStep

(* A step of the handler that reads no verdict.                              *)
ServerOnly == UNCHANGED <<cl, users, verdicts>> /\ HandlerOK(sv') /\ sv.st # "idle"

(* A step of the handler alone that leaves it in order keeps the           *)
(* invariant.                                                              *)
LEMMA ServerOnlyKeeps ==
  ASSUME HandshakeInvariant, ServerOnly
  PROVE  HandshakeInvariant'
BY Zenon DEF HandshakeInvariant, ServerOnly, HandlerOK, IsHandler, VerdictsOK

(* A handler that refuses is in order.                                     *)
LEMMA RefuseOK ==
  ASSUME HandlerOK(sv), Refuse
  PROVE  HandlerOK(sv')
BY Zenon DEF HandlerOK, IsHandler, Refuse

(* So is one that has read the users on entering its protocol.             *)
LEMMA EnterOK ==
  ASSUME HandlerOK(sv), sv.st = "peek", users \subseteq Known, NEW st \in {"method", "socks4", "http"}, Enter(st)
  PROVE  HandlerOK(sv')
BY Zenon DEF HandlerOK, IsHandler, Enter

(* The steps of the SOCKS handlers leave them in order.                    *)
LEMMA SocksSteps ==
  ASSUME HandshakeInvariant,
         Peek \/ ServerMethod \/ ServerAuth \/ ServerRequest \/ ServerControl \/ Server4 \/ ServerLost
  PROVE  ServerOnly
<1> USE DEF HandshakeInvariant, ServerOnly
<1>1. CASE Peek
  BY Zenon, <1>1, RefuseOK, EnterOK DEF Peek, handleSocks, handleConn
<1>2. CASE ServerMethod
  BY Zenon, <1>2 DEF ServerMethod, HandlerOK, IsHandler
<1>3. CASE ServerAuth
  BY Zenon, <1>3, RefuseOK DEF ServerAuth, Verify, HandlerOK, IsHandler
<1>4. CASE ServerRequest
  BY Zenon, <1>4, RefuseOK DEF ServerRequest, Tunnel, HandlerOK, IsHandler
<1>5. CASE ServerControl
  BY Zenon, <1>5, RefuseOK DEF ServerControl
<1>6. CASE Server4
  BY Zenon, <1>6, RefuseOK DEF Server4, Verify, HandlerOK, IsHandler
<1>7. CASE ServerLost
  BY Zenon, <1>7, RefuseOK DEF ServerLost
<1>8. QED
  BY Zenon, <1>1, <1>2, <1>3, <1>4, <1>5, <1>6, <1>7

(* The verdict of the HTTP listener is for a login of some configuration,    *)
(* and so is every verdict it keeps (authenticate and its cache).            *)
LEMMA VerdictKnown ==
  ASSUME HandshakeInvariant, NEW l
  PROVE  /\ CachedVerdict(l) \in BOOLEAN
         /\ CachedVerdict(l) => l \in Known
         /\ authenticate(l) = 200 => users = {} \/ l \in Known
         /\ Remember(l) => VerdictsOK'
<1>1. CachedVerdict(l) \in BOOLEAN /\ (CachedVerdict(l) => l \in Known)
  <2>1. CASE l \in DOMAIN verdicts
    BY <2>1, Zenon DEF CachedVerdict, HandshakeInvariant, VerdictsOK
  <2>2. CASE l \notin DOMAIN verdicts
    <3>1. CachedVerdict(l) = (l \in users)
      BY <2>2, Zenon DEF CachedVerdict, Verify
    <3>2. (l \in users) \in BOOLEAN /\ (l \in users => l \in Known)
      BY DEF HandshakeInvariant
    <3>3. QED
      BY <3>1, <3>2, Zenon
  <2>3. QED
    BY Zenon, <2>1, <2>2
<1>2. authenticate(l) = 200 => users = {} \/ l \in Known
  BY <1>1 DEF authenticate
<1>3. ASSUME Remember(l) PROVE VerdictsOK'
  <2>1. CASE users = {} \/ l = NoLogin
    BY Zenon, <1>3, <2>1 DEF Remember, VerdictsOK, HandshakeInvariant
  <2>2. CASE ~(users = {} \/ l = NoLogin)
    <3>1. verdicts' = [k \in DOMAIN verdicts \cup {l} |-> IF k = l THEN CachedVerdict(l) ELSE verdicts[k]]
      BY Zenon, <1>3, <2>2 DEF Remember
    <3>2. QED
      BY Zenon, <1>1, <3>1 DEF VerdictsOK, HandshakeInvariant
  <2>3. QED
    BY Zenon, <2>1, <2>2
<1>4. QED
  BY Zenon, <1>1, <1>2, <1>3

(* A request to the HTTP listener, with its cache of verdicts, keeps the   *)
(* invariant.                                                              *)
LEMMA HttpStep ==
  ASSUME HandshakeInvariant, ServerHttp
  PROVE  HandshakeInvariant'
<1> DEFINE r    == c2s[1]
           l    == r.v.login
           code == IF sv.trusted THEN 200 ELSE authenticate(l)
           seen == IF sv.trusted THEN sv ELSE [sv EXCEPT !.trusted = code = 200, !.auth = users, !.login = l]
<1>1. /\ sv.st = "http" /\ UNCHANGED <<cl, users>>
      /\ IF sv.trusted THEN UNCHANGED verdicts ELSE Remember(l)
      /\ \/ code = 200 /\ sv' = NewHTTPS(seen, r.v.to)
         \/ \E keep \in BOOLEAN :
              sv' = [(IF code = 200 THEN newClient(seen, r.v.to) ELSE seen) EXCEPT !.st = IF keep THEN "http" ELSE "ended"]
  BY ZenonT(60) DEF ServerHttp
<1>2. VerdictsOK'
  <2>1. CASE sv.trusted
    BY Zenon, <1>1, <2>1 DEF HandshakeInvariant, VerdictsOK
  <2>2. CASE ~sv.trusted
    BY Zenon, <1>1, <2>2, VerdictKnown
  <2>3. QED
    BY Zenon, <2>1, <2>2
<1>3. /\ IsHandler(seen) /\ seen.auth \subseteq Known /\ seen.kind = sv.kind
      /\ code = 200 => seen.trusted
      /\ code = 200 /\ seen.kind # "open" /\ seen.auth # {} => seen.login \in Known
      /\ code # 200 => seen.to = <<>>  /\ ~seen.trusted
  <2>1. CASE sv.trusted
    BY Zenon, <1>1, <2>1 DEF HandshakeInvariant, HandlerOK
  <2>2. CASE ~sv.trusted
    <3>1. code = authenticate(l) /\ seen = [sv EXCEPT !.trusted = code = 200, !.auth = users, !.login = l]
      BY Zenon, <2>2
    <3>2. code = 200 => users = {} \/ l \in Known
      BY <3>1, VerdictKnown
    <3> HIDE DEF code, seen, l
    <3>3. QED
      BY Zenon, <1>1, <2>2, <3>1, <3>2 DEF HandshakeInvariant, HandlerOK, IsHandler
  <2>3. QED
    BY Zenon, <2>1, <2>2
<1> HIDE DEF code, seen, r, l
<1>4. HandlerOK(sv')
  <2>1. CASE code = 200 /\ sv' = NewHTTPS(seen, r.v.to)
    BY Zenon, <1>3, <2>1 DEF NewHTTPS, HandlerOK, IsHandler
  <2>2. ASSUME NEW keep \in BOOLEAN, code = 200,
               sv' = [newClient(seen, r.v.to) EXCEPT !.st = IF keep THEN "http" ELSE "ended"]
        PROVE  HandlerOK(sv')
    BY Zenon, <1>3, <2>2 DEF newClient, HandlerOK, IsHandler
  <2>3. ASSUME NEW keep \in BOOLEAN, code # 200, sv' = [seen EXCEPT !.st = IF keep THEN "http" ELSE "ended"]
        PROVE  HandlerOK(sv')
    BY Zenon, <1>3, <2>3 DEF HandlerOK, IsHandler
  <2>4. QED
    BY Zenon, <1>1, <2>1, <2>2, <2>3
<1>5. QED
  BY Zenon, <1>1, <1>2, <1>4 DEF HandshakeInvariant, IsClient

(* The invariant of handlers holds in every state.                         *)
LEMMA HandlersOK == HandshakeSpec => []HandshakeInvariant
<1>1. HandshakeInit => HandshakeInvariant
  <2> SUFFICES ASSUME HandshakeInit PROVE HandshakeInvariant
    BY Zenon
  <2>1. HandlerOK(sv)
    BY Zenon DEF HandshakeInit, HandlerOK, IsHandler
  <2>2. IsClient(cl) /\ sv.st = "idle"
    BY Zenon DEF HandshakeInit, IsClient
  <2>3. users \subseteq Known /\ VerdictsOK
    BY Zenon DEF HandshakeInit, VerdictsOK
  <2>4. QED
    BY Zenon, <2>1, <2>2, <2>3 DEF HandshakeInvariant
<1>2. HandshakeInvariant /\ [HandshakeNext]_handshakeVars => HandshakeInvariant'
  <2> SUFFICES ASSUME HandshakeInvariant, [HandshakeNext]_handshakeVars
               PROVE  HandshakeInvariant'
    BY Zenon
  <2>1. ASSUME NEW k \in {"socks5", "socks4", "CONNECT", "GET"}, NEW lo \in Logins, NEW m \in Targets,
               NEW c \in {"connect", "udp", "bind"}, NEW s \in {"socks", "mixed", "http", "open"},
               ClientOpens(k, lo, m, c, s)
        PROVE  HandshakeInvariant'
    <3>1. cl'.st # "idle" /\ IsClient(cl')
      BY Zenon, <2>1 DEF ClientOpens, HandshakeInvariant, IsClient
    <3>2. cl.st = "idle" /\ sv' = [sv EXCEPT !.kind = s, !.st = "peek"] /\ UNCHANGED <<users, verdicts>>
      BY Zenon, <2>1 DEF ClientOpens
    <3>3. HandlerOK(sv')
      BY Zenon, <3>2 DEF HandshakeInvariant, HandlerOK, IsHandler
    <3>4. QED
      BY Zenon, <3>1, <3>2, <3>3 DEF HandshakeInvariant, VerdictsOK
  <2>2. CASE ClientStep \/ ClientData
    BY Zenon, <2>2, ClientSteps, ClientOnlyKeeps
  <2>3. CASE ServerStep
    BY Zenon, <2>3, SocksSteps, HttpStep, ServerOnlyKeeps DEF ServerStep
  <2>4. CASE ServerData
    BY Zenon, <2>4 DEF ServerData, HandshakeInvariant, HandlerOK, IsHandler, IsClient, VerdictsOK
  <2>5. CASE DropConn
    BY Zenon, <2>5 DEF DropConn, HandshakeInvariant, HandlerOK, IsHandler, IsClient, VerdictsOK
  <2>6. ASSUME NEW us \in UserSets, SetAuthenticator(us)
        PROVE  HandshakeInvariant'
    BY Zenon, <2>6 DEF SetAuthenticator, Known, HandshakeInvariant, HandlerOK, IsHandler, IsClient, VerdictsOK
  <2>7. ASSUME NEW lo \in Logins, VerdictExpires(lo)
        PROVE  HandshakeInvariant'
    BY Zenon, <2>7 DEF VerdictExpires, HandshakeInvariant, HandlerOK, IsHandler, IsClient, VerdictsOK
  <2>8. CASE UNCHANGED handshakeVars
    BY Zenon, <2>8 DEF handshakeVars, HandshakeInvariant, HandlerOK, IsHandler, IsClient, VerdictsOK
  <2>9. QED
    BY <2>1, <2>2, <2>3, <2>4, <2>5, <2>6, <2>7, <2>8 DEF HandshakeNext
<1>3. QED
  BY <1>1, <1>2, PTL DEF HandshakeSpec

(* A listener that found an authenticator lets in only logins of some        *)
(* configuration, whatever the reloads, the cached verdicts and the          *)
(* interleaving of both ends (socks5 and socks4 ServerHandshake, HandleConn, *)
(* authenticate).                                                            *)
THEOREM OnlyKnownAdmitted == HandshakeSpec => []AdmittedIsKnown
<1>1. HandshakeInvariant => AdmittedIsKnown
  BY Zenon DEF HandshakeInvariant, HandlerOK, AdmittedIsKnown, Known
<1>2. QED
  BY <1>1, HandlersOK, PTL

(***************************************************************************)
(* Handshake: where the tunnels lead and what is left in them.             *)
(***************************************************************************)

(* Sequences as the two ends build and take them.                            *)
LEMMA Behinds ==
  ASSUME NEW a, NEW b, NEW c, NEW d, NEW e
  PROVE  /\ Behind(<<a>>, 1) = <<>>
         /\ Behind(<<a, b>>, 2) = <<>>
         /\ Behind(<<a, b, c>>, 3) = <<>>
         /\ Behind(<<a, b, c, d>>, 4) = <<>>
         /\ Behind(<<a, b, c, d, e>>, 5) = <<>>
BY DEF Behind

(* The members of two lists joined. *)
LEMMA ListsJoined ==
  ASSUME NEW S, NEW s \in Seq(S), NEW t \in Seq(S)
  PROVE  /\ s \o t \in Seq(S) /\ Len(s \o t) = Len(s) + Len(t)
         /\ \A i \in 1..(Len(s) + Len(t)) : (s \o t)[i] = IF i <= Len(s) THEN s[i] ELSE t[i - Len(s)]
OBVIOUS

(* Lists of one length with the same members are the same. *)
LEMMA SameLists ==
  ASSUME NEW S, NEW s \in Seq(S), NEW t \in Seq(S), Len(s) = Len(t), \A i \in 1..Len(s) : s[i] = t[i]
  PROVE  s = t
OBVIOUS

(* What is sent on an empty wire is all there is on it.                    *)
LEMMA FirstFields ==
  ASSUME NEW a, NEW b, NEW c
  PROVE  /\ <<>> \o <<a>> = <<a>>
         /\ <<>> \o <<a, b>> = <<a, b>>
         /\ <<>> \o <<a, b, c>> = <<a, b, c>>
OBVIOUS

(* What has been sent, and one field more.                                 *)
LEMMA Payload ==
  ASSUME NEW n \in Nat
  PROVE  /\ Sent(n) \in Seq({Field("data", i) : i \in Nat}) /\ Len(Sent(n)) = n
         /\ Sent(0) = <<>>
         /\ Append(Sent(n), Field("data", n + 1)) = Sent(n + 1)
<1>1. Sent(n) \in Seq({Field("data", i) : i \in Nat}) /\ Len(Sent(n)) = n
  BY DEF Sent
<1>2. Sent(0) = <<>>
  BY DEF Sent
<1>3. Append(Sent(n), Field("data", n + 1)) = Sent(n + 1)
  BY DEF Sent
<1>4. QED
  BY Zenon, <1>1, <1>2, <1>3

(* The answer that opens the tunnel, and the payload behind it.              *)
LEMMA Opened ==
  ASSUME NEW n \in Nat, NEW f
  PROVE  /\ <<f>> \o Sent(0) = <<f>>
         /\ Append(<<f>> \o Sent(n), Field("data", n + 1)) = <<f>> \o Sent(n + 1)
         /\ (<<f>> \o Sent(n))[1] = f /\ Len(<<f>> \o Sent(n)) = n + 1
         /\ Behind(<<f>> \o Sent(n), 1) = Sent(n)
<1> DEFINE S == {Field("data", i) : i \in Nat} \cup {f}
<1>1. Sent(n) \in Seq(S) /\ Len(Sent(n)) = n /\ <<f>> \in Seq(S) /\ Sent(0) = <<>>
  BY Payload DEF Sent
<1>2. <<f>> \o Sent(0) = <<f>>
  <2>1. <<f>> \o <<>> = <<f>>
    OBVIOUS
  <2>2. QED
    BY <1>1, <2>1, Zenon
<1>3. (<<f>> \o Sent(n))[1] = f /\ Len(<<f>> \o Sent(n)) = n + 1
  BY <1>1
<1>4. Append(<<f>> \o Sent(n), Field("data", n + 1)) = <<f>> \o Append(Sent(n), Field("data", n + 1))
  <2> Field("data", n + 1) \in S
    OBVIOUS
  <2> HIDE DEF S
  <2> QED
  BY <1>1
<1>5. Behind(<<f>> \o Sent(n), 1) = Sent(n)
  <2> HIDE DEF S
  <2> QED
  BY <1>1 DEF Behind
<1>6. QED
  BY Zenon, <1>2, <1>3, <1>4, <1>5, Payload

(* Every way to write a destination names it, and nothing else, to the       *)
(* other side.                                                               *)
Reaches(m, dst) == Names(m) # {} /\ Names(m) \subseteq Names(dst)

(* The two parts of a field.                                               *)
LEMMA FieldParts ==
  ASSUME NEW f, NEW v
  PROVE  Field(f, v).f = f /\ Field(f, v).v = v
BY Zenon DEF Field

(* An address that is sent as a name leads to the target of that name.     *)
LEMMA ByName ==
  ASSUME NEW h, h # "", NEW dst, TrimDot(h) \in Names(dst)
  PROVE  Reaches(parseSocksAddr(Field("host", h)), dst) /\ Reaches(parseHTTPAddr(Field("host", h)), dst)
<1> DEFINE m == [t |-> "host", h |-> TrimDot(h), ip |-> ""]
<1>1. parseSocksAddr(Field("host", h)) = m /\ parseHTTPAddr(Field("host", h)) = m
  BY FieldParts, Zenon DEF parseSocksAddr, parseHTTPAddr
<1>2. TrimDot(TrimDot(h)) = TrimDot(h) /\ TrimDot(h) # ""
  BY Zenon DEF TrimDot
<1>3. Names(m) = {TrimDot(h)}
  <2>1. Names(m) = {TrimDot(TrimDot(h)), ""} \ {""}
    BY Zenon DEF Names
  <2> HIDE DEF m
  <2>2. QED
    BY Zenon, <1>2, <2>1
<1> HIDE DEF m
<1>4. Reaches(m, dst)
  BY Zenon, <1>3 DEF Reaches
<1>5. QED
  BY <1>1, <1>4, Zenon

(* One that is sent as an IP leads to the target of that IP.               *)
LEMMA ByAddress ==
  ASSUME NEW t, t # "host", NEW v, v \notin {"", "name."}, NEW dst, v \in Names(dst)
  PROVE  Reaches(parseSocksAddr(Field(t, v)), dst) /\ Reaches(parseHTTPAddr(Field(t, v)), dst)
<1> DEFINE m == [t |-> t, h |-> "", ip |-> v]
           n == [t |-> t, h |-> v, ip |-> v]
<1>1. parseSocksAddr(Field(t, v)) = m /\ parseHTTPAddr(Field(t, v)) = n
  BY FieldParts, Zenon DEF parseSocksAddr, parseHTTPAddr
<1>2. TrimDot(v) = v /\ TrimDot("") = ""
  BY Zenon DEF TrimDot
<1>3. Names(m) = {v} /\ Names(n) = {v}
  <2>1. Names(m) = {TrimDot(""), v} \ {""} /\ Names(n) = {TrimDot(v), v} \ {""}
    BY Zenon DEF Names
  <2> HIDE DEF m, n
  <2>2. QED
    BY Zenon, <1>2, <2>1
<1> HIDE DEF m, n
<1>4. Reaches(m, dst) /\ Reaches(n, dst)
  BY Zenon, <1>3 DEF Reaches
<1>5. QED
  BY <1>1, <1>4, Zenon

(* A target leads to itself through each of the encodings of an address.   *)
LEMMA WrittenAndRead ==
  ASSUME NEW dst \in Targets
  PROVE  /\ Reaches(parseSocksAddr(serializesSocksAddr(dst)), dst)
         /\ Reaches(parseSocksAddr(RemoteAddress(dst)), dst)
         /\ Reaches(parseHTTPAddr(RemoteAddress(dst)), dst)
         /\ RemoteAddress(dst).f # "host" => RemoteAddress(dst).v # "reserved"
         /\ RemoteAddress(dst).f # "host" => Reaches(parseSocksAddr(Field("v4", RemoteAddress(dst).v)), dst)
         /\ RemoteAddress(dst).f = "host" => Reaches(parseSocksAddr(Field("host", RemoteAddress(dst).v)), dst)
<1> DEFINE r == RemoteAddress(dst)
<1>1. (dst.t = "host" => dst.h # "") /\ (dst.t # "host" => dst.ip # "") /\ dst.ip \notin {"name.", "reserved"}
  BY Zenon, HandshakeAssumption
<1>2. \/ r = Field("host", dst.h) /\ dst.h # ""
      \/ r = Field(dst.t, dst.ip) /\ dst.t # "host"
  BY Zenon, <1>1 DEF RemoteAddress
<1>3. (dst.h # "" => TrimDot(dst.h) \in Names(dst)) /\ (dst.ip # "" => dst.ip \in Names(dst))
  BY Zenon DEF Names, TrimDot
<1>4. /\ dst.t = "host" => serializesSocksAddr(dst) = Field("host", dst.h)
      /\ dst.t # "host" => serializesSocksAddr(dst) = Field(dst.t, dst.ip)
  BY Zenon DEF serializesSocksAddr
<1>5. Reaches(parseSocksAddr(serializesSocksAddr(dst)), dst)
  <2>1. CASE dst.t = "host"
    BY <1>1, <1>3, <1>4, <2>1, ByName, Zenon
  <2>2. CASE dst.t # "host"
    <3>1. dst.ip \notin {"", "name."} /\ dst.ip \in Names(dst)
      BY Zenon, <1>1, <1>3, <2>2
    <3>2. QED
      BY <1>4, <2>2, <3>1, ByAddress, Zenon
  <2>3. QED
    BY Zenon, <2>1, <2>2
<1>6. CASE r = Field("host", dst.h) /\ dst.h # ""
  <2>1. r.f = "host" /\ r.v = dst.h
    <3>1. Field("host", dst.h).f = "host" /\ Field("host", dst.h).v = dst.h
      BY Zenon, FieldParts
    <3>2. QED
      BY <1>6, <3>1, Zenon
  <2>2. Reaches(parseSocksAddr(Field("host", dst.h)), dst) /\ Reaches(parseHTTPAddr(Field("host", dst.h)), dst)
    BY <1>3, <1>6, ByName, Zenon
  <2>3. Reaches(parseSocksAddr(r), dst) /\ Reaches(parseHTTPAddr(r), dst)
    BY <1>6, <2>2, Zenon
  <2>4. Reaches(parseSocksAddr(Field("host", r.v)), dst)
    BY <2>1, <2>2, Zenon
  <2>5. QED
    BY <1>5, <2>1, <2>3, <2>4, Zenon
<1>7. CASE r = Field(dst.t, dst.ip) /\ dst.t # "host"
  <2>1. r.f = dst.t /\ r.v = dst.ip
    BY <1>7 DEF Field
  <2>2. dst.ip \notin {"", "name."} /\ dst.ip # "reserved" /\ dst.ip \in Names(dst) /\ "v4" # "host"
    BY Zenon, <1>1, <1>3, <1>7
  <2>3. /\ Reaches(parseSocksAddr(Field(dst.t, dst.ip)), dst) /\ Reaches(parseHTTPAddr(Field(dst.t, dst.ip)), dst)
        /\ Reaches(parseSocksAddr(Field("v4", dst.ip)), dst)
    BY <1>7, <2>2, ByAddress, Zenon
  <2>4. Reaches(parseSocksAddr(r), dst) /\ Reaches(parseHTTPAddr(r), dst)
    BY <1>7, <2>3, Zenon
  <2>5. Reaches(parseSocksAddr(Field("v4", r.v)), dst) /\ r.v # "reserved" /\ r.f # "host"
    BY <1>7, <2>1, <2>2, <2>3, Zenon
  <2>6. QED
    BY <1>5, <2>4, <2>5, Zenon
<1>8. QED
  BY Zenon, <1>2, <1>6, <1>7

(* What is on its way for each protocol and each pair of places of the two   *)
(* ends, while the handler has not ended; what was on its way may be gone    *)
(* with the connection.                                                      *)
Wire5 ==
  \/ /\ cl.st = "method" /\ sv.st \in {"peek", "method"}
     /\ c2s \in {<<>>, Hello5(cl.login)} /\ s2c = <<>>
  \/ /\ cl.st = "method" /\ sv.st \in {"auth", "request"} /\ c2s = <<>>
     /\ s2c \in {<<>>, <<Field("ver", 5), Field("method", IF sv.st = "auth" THEN 2 ELSE 0)>>}
  \/ cl.st = "auth" /\ sv.st = "auth" /\ c2s \in {<<>>, <<Field("user", cl.login)>>} /\ s2c = <<>>
  \/ cl.st = "auth" /\ sv.st = "request" /\ c2s = <<>> /\ s2c \in {<<>>, <<Field("status", 0)>>}
  \/ cl.st = "reply" /\ sv.st = "request" /\ c2s \in {<<>>, Request5} /\ s2c = <<>>
  \/ cl.st \in {"reply", "open"} /\ sv.st = "control" /\ cl.cmd = "udp" /\ c2s = <<>>
  \/ cl.st = "failed" /\ sv.st \in {"peek", "method", "auth", "request", "control"} /\ c2s = <<>>

Wire4 ==
  \/ /\ cl.st = "reply" /\ sv.st \in {"peek", "socks4"} /\ s2c = <<>>
     /\ c2s \in {<<>>, Hello4(cl.login, RemoteAddress(cl.dst), cl.cmd)}
  \/ cl.st = "failed" /\ sv.st \in {"peek", "socks4"} /\ c2s = <<>>

(* A CONNECT that is not let in gets an answer that opens nothing.           *)
Requests == {Field(cl.kind, [to |-> RemoteAddress(cl.dst), login |-> l]) : l \in Logins}
WireConnect ==
  \/ cl.st = "reply" /\ sv.st \in {"peek", "http"} /\ c2s = <<>> /\ s2c = <<>>
  \/ cl.st = "reply" /\ sv.st \in {"peek", "http"} /\ (\E f \in Requests : c2s = <<f>>) /\ s2c = <<>>
  \/ cl.st = "reply" /\ sv.st = "http" /\ c2s = <<>> /\ s2c \in {<<Field("status", 403)>>, <<Field("status", 407)>>}
  \/ cl.st = "failed" /\ sv.st \in {"peek", "http"} /\ c2s = <<>>

WireGet ==
  /\ cl.st \in {"reply", "open", "failed"} /\ sv.st \in {"peek", "http"}
  /\ c2s \in Seq(Requests)

(* In the tunnel: the payload, behind the answer until that has been read.   *)
Opens(f)   == f.v \in {0, 90, 200}
Answered   == \E f : Opens(f) /\ s2c = <<f>> \o Sent(sv.data)
WireTunnel ==
  /\ sv.st = "tunnel" /\ cl.kind \in {"socks5", "socks4", "CONNECT"}
  /\ c2s = Sent(cl.data)
  /\ \/ cl.st = "reply" /\ Answered
     \/ cl.st = "open" /\ (cl.kind # "CONNECT" => s2c = Sent(sv.data))

Wire ==
  \/ cl.st = "idle" /\ sv.st = "idle" /\ c2s = <<>> /\ s2c = <<>>
  \/ cl.st # "idle" /\ sv.st = "ended"
  \/ cl.kind = "socks5" /\ Wire5
  \/ cl.kind = "socks4" /\ Wire4
  \/ cl.kind = "CONNECT" /\ WireConnect
  \/ cl.kind = "GET" /\ WireGet
  \/ WireTunnel

(* Nobody has sent payload before it is in the tunnel.                       *)
Counts ==
  /\ cl.data \in Nat /\ (cl.st = "idle" \/ (cl.kind # "GET" /\ cl.st # "open") => cl.data = 0)
  /\ sv.data \in Nat /\ (sv.st # "tunnel" => sv.data = 0)

Asked ==
  /\ cl.st # "idle" => cl.dst \in Targets /\ (cl.cmd # "connect" => cl.kind = "socks5")
  /\ cl.kind \in {"socks5", "socks4"} => sv.kind \in {"socks", "mixed"}

ToAsked == sv.to # <<>> => Reaches(sv.to[1], cl.dst) /\ cl.cmd = "connect"

(* A client that still waits on a dropped connection waits for nothing.      *)
Gone ==
  cl.kind # "GET" /\ cl.st \in {"method", "auth", "reply"} /\ closed # {} /\ sv.st # "ended" => c2s = <<>> /\ s2c = <<>>

TunnelInvariant == Wire /\ Counts /\ Asked /\ ToAsked /\ Gone

(* A step of one end: what stays of its state, and what is left to show.     *)
SameClient == UNCHANGED <<cl.kind, cl.login, cl.dst, cl.cmd, cl.data>>
ClientGoes(st) == cl'.st = st /\ SameClient
HandlerGoes(st) == sv'.st = st /\ UNCHANGED <<sv.kind, sv.data>>

(* A client that only goes on keeps the rest of its state.                 *)
LEMMA ClientMoves ==
  ASSUME IsClient(cl), NEW st, cl' = [cl EXCEPT !.st = st]
  PROVE  ClientGoes(st)
BY Zenon DEF IsClient, ClientGoes, SameClient

(* A step of the client: what is left to show is what lies on the wire.    *)
LEMMA ClientFrame ==
  ASSUME TunnelInvariant, Wire', UNCHANGED sv, SameClient, cl.st \in {"method", "auth", "reply"}, cl'.st # "idle",
         cl'.st \in {"open", "failed"} \/ (s2c # <<>> /\ UNCHANGED closed)
  PROVE  TunnelInvariant'
<1>1. Counts'
  BY Zenon DEF TunnelInvariant, Counts, SameClient
<1>2. Asked'
  BY Zenon DEF TunnelInvariant, Asked, SameClient
<1>3. ToAsked'
  <2>1. sv'.to = sv.to /\ cl'.dst = cl.dst /\ cl'.cmd = cl.cmd
    BY Zenon DEF SameClient
  <2>2. QED
    BY <2>1, Zenon DEF TunnelInvariant, ToAsked
<1>4. Gone'
  BY Zenon DEF TunnelInvariant, Gone, SameClient
<1>5. QED
  BY Zenon, <1>1, <1>2, <1>3, <1>4 DEF TunnelInvariant

(* What the handler hands over leads where the client asked.                 *)
GoesTo(m) == sv'.to = <<m>> /\ Reaches(m, cl.dst) /\ cl.cmd = "connect"

(* The same for a step of the handler.                                     *)
LEMMA HandlerFrame ==
  ASSUME TunnelInvariant, Wire', UNCHANGED cl, NEW st, HandlerGoes(st), sv.st \notin {"tunnel", "ended"},
         sv'.to = sv.to \/ \E m : GoesTo(m), st = "ended" \/ (c2s # <<>> /\ UNCHANGED closed)
  PROVE  TunnelInvariant'
<1>1. Counts'
  BY Zenon DEF TunnelInvariant, Counts, HandlerGoes
<1>2. Asked'
  BY Zenon DEF TunnelInvariant, Asked, HandlerGoes
<1>3. ToAsked'
  <2>1. CASE sv'.to = sv.to
    BY <2>1, Zenon DEF TunnelInvariant, ToAsked
  <2>2. ASSUME NEW m, GoesTo(m) PROVE ToAsked'
    <3>1. <<m>>[1] = m
      BY Zenon
    <3>2. QED
      BY <2>2, <3>1, Zenon DEF GoesTo, ToAsked
  <2>3. QED
    BY Zenon, <2>1, <2>2
<1>4. Gone'
  BY Zenon DEF TunnelInvariant, Gone, HandlerGoes
<1>5. QED
  BY Zenon, <1>1, <1>2, <1>3, <1>4 DEF TunnelInvariant

(* What the client finds when its answer has come.                           *)
LEMMA MethodAnswer ==
  ASSUME TunnelInvariant, cl.st = "method", Ready(s2c, 2), sv.st # "ended"
  PROVE  /\ cl.kind = "socks5" /\ c2s = <<>> /\ sv.st \in {"auth", "request"}
         /\ Behind(s2c, 2) = <<>>
         /\ s2c[2].v = IF sv.st = "auth" THEN 2 ELSE 0
<1>1. /\ cl.kind = "socks5" /\ c2s = <<>> /\ sv.st \in {"auth", "request"}
      /\ s2c = <<Field("ver", 5), Field("method", IF sv.st = "auth" THEN 2 ELSE 0)>>
  <2>1. s2c # <<>>
    BY DEF Ready
  <2>2. cl.kind = "socks5" /\ Wire5
    BY Zenon DEF TunnelInvariant, Wire, Wire4, WireConnect, WireGet, WireTunnel
  <2>3. QED
    BY Zenon, <2>1, <2>2 DEF Wire5
<1>2. Behind(s2c, 2) = <<>>
  BY Zenon, <1>1, Behinds
<1>3. s2c[2] = Field("method", IF sv.st = "auth" THEN 2 ELSE 0)
  BY Zenon, <1>1
<1>4. Field("method", IF sv.st = "auth" THEN 2 ELSE 0).v = IF sv.st = "auth" THEN 2 ELSE 0
  BY FieldParts
<1>5. s2c[2].v = IF sv.st = "auth" THEN 2 ELSE 0
  BY <1>3, <1>4, Zenon
<1>6. QED
  BY Zenon, <1>1, <1>2, <1>5

(* ClientMethod keeps the invariant of tunnels.                            *)
LEMMA MethodWire ==
  ASSUME HandshakeInvariant, TunnelInvariant, ClientMethod
  PROVE  TunnelInvariant'
<1>1. cl.st = "method" /\ Ready(s2c, 2) /\ s2c' = Behind(s2c, 2) /\ UNCHANGED sv /\ IsClient(cl)
  BY Zenon DEF ClientMethod, HandshakeInvariant
<1>2. \/ s2c[2].v = 2 /\ ClientGoes("auth") /\ c2s' = c2s \o <<Field("user", cl.login)>>
      \/ s2c[2].v = 0 /\ ClientGoes("reply") /\ c2s' = c2s \o Request5
      \/ ClientGoes("failed") /\ UNCHANGED c2s
  BY Zenon, <1>1, ClientMoves DEF ClientMethod, Fails
<1>3. SameClient /\ cl'.st \notin {"idle", "method", "open"} /\ (cl'.st = "failed" \/ (s2c # <<>> /\ UNCHANGED closed))
  <2>1. SameClient /\ cl'.st \notin {"idle", "method", "open"} /\ s2c # <<>>
    BY <1>1, <1>2 DEF ClientGoes, Ready
  <2>2. cl'.st = "failed" \/ UNCHANGED closed
    BY Zenon, <1>1, ClientMoves DEF ClientMethod, Fails, ClientGoes
  <2>3. QED
    BY Zenon, <2>1, <2>2
<1>4. Wire'
  <2>1. CASE sv.st = "ended"
    BY Zenon, <1>1, <1>3, <2>1 DEF Wire
  <2>2. CASE sv.st # "ended"
    <3>1. /\ cl.kind = "socks5" /\ c2s = <<>> /\ sv.st \in {"auth", "request"}
          /\ s2c' = <<>>
          /\ s2c[2].v = IF sv.st = "auth" THEN 2 ELSE 0
      BY Zenon, <1>1, <2>2, MethodAnswer
    <3>2. CASE s2c[2].v = 2 /\ ClientGoes("auth") /\ c2s' = c2s \o <<Field("user", cl.login)>>
      BY <1>1, <3>1, <3>2, FirstFields DEF Wire, Wire5, ClientGoes, SameClient
    <3>3. CASE s2c[2].v = 0 /\ ClientGoes("reply") /\ c2s' = c2s \o Request5
      <4>1. c2s' = Request5 /\ Request5' = Request5
        BY Zenon, <3>1, <3>3, FirstFields DEF Request5, ClientGoes, SameClient
      <4>2. QED
        BY <1>1, <3>1, <3>3, <4>1 DEF Wire, Wire5, ClientGoes, SameClient
    <3>4. CASE ClientGoes("failed") /\ UNCHANGED c2s
      BY Zenon, <1>1, <3>1, <3>4 DEF Wire, Wire5, ClientGoes, SameClient
    <3>5. QED
      BY Zenon, <1>2, <3>2, <3>3, <3>4
  <2>3. QED
    BY Zenon, <2>1, <2>2
<1>5. QED
  BY Zenon, <1>1, <1>3, <1>4, ClientFrame

(* What the client finds when the answer to its login has come.            *)
LEMMA AuthAnswer ==
  ASSUME TunnelInvariant, cl.st = "auth", Ready(s2c, 1), sv.st # "ended"
  PROVE  cl.kind = "socks5" /\ c2s = <<>> /\ sv.st = "request" /\ Behind(s2c, 1) = <<>>
<1>1. cl.kind = "socks5" /\ c2s = <<>> /\ sv.st = "request" /\ s2c = <<Field("status", 0)>>
  BY DEF TunnelInvariant, Wire, Wire5, Wire4, WireConnect, WireGet, WireTunnel, Ready
<1>2. QED
  BY Zenon, <1>1, Behinds

(* ClientAuth keeps the invariant of tunnels.                              *)
LEMMA AuthWire ==
  ASSUME HandshakeInvariant, TunnelInvariant, ClientAuth
  PROVE  TunnelInvariant'
<1>1. cl.st = "auth" /\ Ready(s2c, 1) /\ s2c' = Behind(s2c, 1) /\ UNCHANGED sv /\ IsClient(cl)
  BY Zenon DEF ClientAuth, HandshakeInvariant
<1>2. \/ ClientGoes("reply") /\ c2s' = c2s \o Request5
      \/ ClientGoes("failed") /\ UNCHANGED c2s
  BY Zenon, <1>1, ClientMoves DEF ClientAuth, Fails
<1>3. SameClient /\ cl'.st \notin {"idle", "open"} /\ (cl'.st = "failed" \/ (s2c # <<>> /\ UNCHANGED closed))
  <2>1. SameClient /\ cl'.st \notin {"idle", "open"} /\ s2c # <<>>
    BY <1>1, <1>2 DEF ClientGoes, Ready
  <2>2. cl'.st = "failed" \/ UNCHANGED closed
    BY Zenon, <1>1, ClientMoves DEF ClientAuth, Fails, ClientGoes
  <2>3. QED
    BY Zenon, <2>1, <2>2
<1>4. Wire'
  <2>1. CASE sv.st = "ended"
    BY Zenon, <1>1, <1>3, <2>1 DEF Wire
  <2>2. CASE sv.st # "ended"
    <3>1. cl.kind = "socks5" /\ c2s = <<>> /\ sv.st = "request" /\ s2c' = <<>>
      BY Zenon, <1>1, <2>2, AuthAnswer
    <3>2. CASE ClientGoes("reply") /\ c2s' = c2s \o Request5
      <4>1. c2s' = Request5 /\ Request5' = Request5
        BY Zenon, <3>1, <3>2, FirstFields DEF Request5, ClientGoes, SameClient
      <4>2. QED
        BY Zenon, <1>1, <3>1, <3>2, <4>1 DEF Wire, Wire5, ClientGoes, SameClient
    <3>3. CASE ClientGoes("failed") /\ UNCHANGED c2s
      BY Zenon, <1>1, <3>1, <3>3 DEF Wire, Wire5, ClientGoes, SameClient
    <3>4. QED
      BY Zenon, <1>2, <3>2, <3>3
  <2>3. QED
    BY Zenon, <2>1, <2>2
<1>5. QED
  BY Zenon, <1>1, <1>3, <1>4, ClientFrame

(* A client that gives up keeps the invariant of tunnels.                  *)
LEMMA LostWire ==
  ASSUME HandshakeInvariant, TunnelInvariant, ClientLost
  PROVE  TunnelInvariant'
<1>1. /\ cl.st \in {"method", "auth", "reply"} /\ closed # {} /\ s2c = <<>>
      /\ UNCHANGED <<sv, s2c, c2s>> /\ ClientGoes("failed")
  BY Zenon, ClientMoves DEF ClientLost, Fails, HandshakeInvariant
<1>2. cl.kind = "GET" \/ sv.st = "ended" \/ c2s = <<>>
  BY Zenon, <1>1 DEF TunnelInvariant, Gone
<1>3. sv.st # "tunnel"
  <2>1. Answered => s2c # <<>>
    BY Opened DEF TunnelInvariant, Counts, Answered
  <2>2. QED
    BY Zenon, <1>1, <2>1 DEF TunnelInvariant, Wire, Wire5, Wire4, WireConnect, WireGet, WireTunnel
<1>4. Wire'
  <2>1. CASE sv.st = "ended"
    BY Zenon, <1>1, <2>1 DEF Wire, ClientGoes
  <2>2. CASE sv.st # "ended" /\ cl.kind = "GET"
    BY <1>1, <1>3, <2>2 DEF TunnelInvariant, Wire, WireGet, WireTunnel, Requests, ClientGoes, SameClient
  <2>3. CASE sv.st # "ended" /\ cl.kind # "GET"
    BY Zenon, <1>1, <1>2, <1>3, <2>3 DEF TunnelInvariant, Wire, Wire5, Wire4, WireConnect, WireTunnel, ClientGoes, SameClient
  <2>4. QED
    BY Zenon, <2>1, <2>2, <2>3
<1>5. QED
  BY Zenon, <1>1, <1>4, ClientFrame DEF ClientGoes

(* ClientReply keeps the invariant of tunnels.                             *)
LEMMA ReplyWire ==
  ASSUME HandshakeInvariant, TunnelInvariant, ClientReply
  PROVE  TunnelInvariant'
<1>1. cl.st = "reply" /\ Ready(s2c, 1) /\ UNCHANGED <<sv, c2s>> /\ IsClient(cl)
  BY Zenon DEF ClientReply, HandshakeInvariant, Fails
<1>2. cl.kind # "CONNECT" => s2c' = Behind(s2c, 1)
  BY Zenon DEF ClientReply
<1>3. \/ s2c[1].v \in {0, 90, 200} /\ ClientGoes("open")
      \/ s2c[1].v \notin {0, 90, 200} /\ ClientGoes("failed")
  BY <1>1, ClientMoves DEF ClientReply, Fails
<1>4. s2c # <<>>
  BY <1>1 DEF Ready
<1>5. Wire'
  <2>1. CASE sv.st = "ended"
    BY Zenon, <1>1, <1>3, <2>1 DEF Wire, ClientGoes
  <2>2. CASE cl.kind = "socks5" /\ Wire5
    BY <1>1, <1>3, <1>4, <2>2 DEF Wire, Wire5, ClientGoes, SameClient
  <2>3. CASE cl.kind = "socks4" /\ Wire4
    BY Zenon, <1>1, <1>4, <2>3 DEF Wire4
  <2>4. CASE cl.kind = "CONNECT" /\ WireConnect
    <3>1. sv.st = "http" /\ c2s = <<>> /\ \E n \in {403, 407} : s2c = <<Field("status", n)>>
      BY <1>1, <1>4, <2>4 DEF WireConnect
    <3>2. s2c[1].v \notin {0, 90, 200}
      <4>1. PICK n \in {403, 407} : s2c = <<Field("status", n)>>
        BY Zenon, <3>1
      <4>2. s2c[1] = Field("status", n) /\ Field("status", n).v = n
        BY <4>1, FieldParts
      <4>3. s2c[1].v = n
        BY <4>2, Zenon
      <4>4. QED
        BY <4>3
    <3>3. QED
      BY <1>1, <1>3, <2>4, <3>1, <3>2 DEF Wire, WireConnect, ClientGoes, SameClient
  <2>5. CASE cl.kind = "GET" /\ WireGet
    BY <1>1, <1>3, <2>5 DEF Wire, WireGet, Requests, ClientGoes, SameClient
  <2>6. CASE WireTunnel
    <3>1. PICK f : Opens(f) /\ s2c = <<f>> \o Sent(sv.data)
      BY Zenon, <1>1, <2>6 DEF WireTunnel, Answered
    <3>2. sv.data \in Nat
      BY Zenon DEF TunnelInvariant, Counts
    <3>3. s2c[1] = f /\ Behind(s2c, 1) = Sent(sv.data)
      <4>1. (<<f>> \o Sent(sv.data))[1] = f /\ Behind(<<f>> \o Sent(sv.data), 1) = Sent(sv.data)
        BY Zenon, <3>2, Opened
      <4>2. QED
        BY <3>1, <4>1, Zenon
    <3>4. s2c[1].v \in {0, 90, 200}
      BY <3>1, <3>3, Zenon DEF Opens
    <3>5. ClientGoes("open")
      BY Zenon, <1>3, <3>4
    <3>6. WireTunnel'
      BY Zenon, <1>1, <1>2, <2>6, <3>3, <3>5 DEF WireTunnel, ClientGoes, SameClient
    <3>7. QED
      BY Zenon, <3>6 DEF Wire
  <2>7. QED
    BY Zenon, <1>1, <2>1, <2>2, <2>3, <2>4, <2>5, <2>6 DEF TunnelInvariant, Wire
<1>6. QED
  BY Zenon, <1>1, <1>3, <1>5, ClientFrame DEF ClientGoes

(* Payload of the client keeps the invariant of tunnels.                   *)
LEMMA ClientDataWire ==
  ASSUME HandshakeInvariant, TunnelInvariant, ClientData
  PROVE  TunnelInvariant'
<1> DEFINE next == IF cl.kind = "GET" THEN Field("GET", [to |-> RemoteAddress(cl.dst), login |-> NoLogin])
                   ELSE Field("data", cl.data + 1)
           st   == IF cl.kind = "GET" THEN "reply" ELSE "open"
<1>1. cl.st = "open" /\ cl.cmd = "connect" /\ UNCHANGED <<sv, s2c, closed>> /\ c2s' = Append(c2s, next)
  BY Zenon DEF ClientData
<1>2. /\ UNCHANGED <<cl.kind, cl.login, cl.dst, cl.cmd>> /\ cl'.data = cl.data + 1
      /\ cl'.st = st
  BY Zenon, <1>1 DEF ClientData, HandshakeInvariant, IsClient
<1>3. Wire'
  <2>1. CASE sv.st = "ended"
    BY Zenon, <1>1, <1>2, <2>1 DEF Wire
  <2>2. CASE sv.st # "ended" /\ cl.kind = "GET"
    <3>1. WireGet
      BY Zenon, <1>1, <2>2 DEF TunnelInvariant, Wire, WireTunnel
    <3>2. NoLogin \in Logins
      BY Zenon, HandshakeAssumption DEF NoLogin
    <3>3. next \in Requests /\ Requests' = Requests
      BY Zenon, <1>2, <2>2, <3>2 DEF Requests
    <3>4. c2s' \in Seq(Requests')
      <4> HIDE DEF next
      <4> QED
      BY <1>1, <3>1, <3>3 DEF WireGet
    <3>5. QED
      BY Zenon, <1>1, <1>2, <2>2, <3>1, <3>4 DEF Wire, WireGet
  <2>3. CASE sv.st # "ended" /\ cl.kind # "GET"
    <3>1. WireTunnel
      BY Zenon, <1>1, <2>3 DEF TunnelInvariant, Wire, Wire5, Wire4, WireConnect
    <3>2. c2s' = Sent(cl.data + 1)
      BY Zenon, <1>1, <2>3, <3>1, Payload DEF TunnelInvariant, Counts, WireTunnel
    <3>3. WireTunnel'
      BY Zenon, <1>1, <1>2, <2>3, <3>1, <3>2 DEF WireTunnel
    <3>4. QED
      BY Zenon, <3>3 DEF Wire
  <2>4. QED
    BY Zenon, <2>1, <2>2, <2>3
<1>4. Counts' /\ Asked' /\ Gone'
  <2> HIDE DEF next
  <2> QED
  BY <1>1, <1>2 DEF TunnelInvariant, Counts, Asked, Gone
<1>5. ToAsked'
  <2>1. sv'.to = sv.to /\ cl'.dst = cl.dst /\ cl'.cmd = cl.cmd
    BY Zenon, <1>1, <1>2
  <2>2. QED
    BY <2>1, Zenon DEF TunnelInvariant, ToAsked
<1>6. QED
  BY Zenon, <1>3, <1>4, <1>5 DEF TunnelInvariant

(* Payload of the tunnel keeps the invariant of tunnels.                   *)
LEMMA ServerDataWire ==
  ASSUME HandshakeInvariant, TunnelInvariant, ServerData
  PROVE  TunnelInvariant'
<1>1. /\ sv.st = "tunnel" /\ UNCHANGED <<cl, c2s, closed>>
      /\ s2c' = Append(s2c, Field("data", sv.data + 1))
  BY Zenon DEF ServerData
<1>2. UNCHANGED <<sv.kind, sv.st, sv.to>> /\ sv'.data = sv.data + 1
  BY Zenon DEF ServerData, HandshakeInvariant, HandlerOK, IsHandler
<1>3. sv.data \in Nat
  BY Zenon DEF TunnelInvariant, Counts
<1>4. WireTunnel
  BY Zenon, <1>1 DEF TunnelInvariant, Wire, Wire5, Wire4, WireConnect, WireGet
<1>5. WireTunnel'
  <2>1. CASE cl.st = "reply"
    <3>1. PICK f : Opens(f) /\ s2c = <<f>> \o Sent(sv.data)
      BY Zenon, <1>4, <2>1 DEF WireTunnel, Answered
    <3>2. s2c' = <<f>> \o Sent(sv'.data)
      <4>1. Append(<<f>> \o Sent(sv.data), Field("data", sv.data + 1)) = <<f>> \o Sent(sv.data + 1)
        BY Zenon, <1>3, Opened
      <4>2. QED
        BY <1>1, <1>2, <3>1, <4>1, Zenon
    <3>3. Answered'
      BY <3>1, <3>2, Zenon DEF Answered
    <3>4. QED
      BY Zenon, <1>1, <1>2, <1>4, <2>1, <3>3 DEF WireTunnel
  <2>2. CASE cl.st = "open"
    <3>1. s2c = Sent(sv.data) => s2c' = Sent(sv'.data)
      <4>1. Append(Sent(sv.data), Field("data", sv.data + 1)) = Sent(sv.data + 1)
        BY Zenon, <1>3, Payload
      <4>2. QED
        BY <1>1, <1>2, <4>1, Zenon
    <3>2. QED
      BY Zenon, <1>1, <1>2, <1>4, <2>2, <3>1 DEF WireTunnel
  <2>3. QED
    BY Zenon, <1>4, <2>1, <2>2 DEF WireTunnel
<1>6. Counts' /\ Asked'
  BY <1>1, <1>2 DEF TunnelInvariant, Counts, Asked
<1>7. Gone'
  <2>1. Answered => s2c # <<>>
    BY <1>3, Opened DEF Answered
  <2>2. QED
    BY Zenon, <1>1, <1>2, <1>4, <2>1 DEF TunnelInvariant, Gone, WireTunnel
<1>8. ToAsked'
  BY <1>1, <1>2, Zenon DEF TunnelInvariant, ToAsked
<1>9. QED
  BY Zenon, <1>5, <1>6, <1>7, <1>8 DEF TunnelInvariant, Wire

(* The handler goes away, moves on, or opens the tunnel.                     *)
LEMMA HandlerMoves ==
  ASSUME IsHandler(sv), NEW st
  PROVE  /\ sv' = [sv EXCEPT !.st = st] => HandlerGoes(st) /\ sv'.to = sv.to
         /\ Enter(st) => HandlerGoes(st) /\ sv'.to = sv.to
         /\ \A l : sv' = [sv EXCEPT !.st = st, !.login = l] => HandlerGoes(st) /\ sv'.to = sv.to
         /\ \A m : Tunnel(m) => HandlerGoes("tunnel") /\ sv'.to = <<m>>
         /\ \A m, l : sv' = [sv EXCEPT !.st = "tunnel", !.to = <<m>>, !.login = l]
                        => HandlerGoes("tunnel") /\ sv'.to = <<m>>
BY Zenon DEF IsHandler, HandlerGoes, Enter, Tunnel

Waits == sv.st \notin {"idle", "tunnel", "ended"}

(* A handler that refuses keeps the invariant of tunnels.                  *)
LEMMA RefusedWire ==
  ASSUME HandshakeInvariant, TunnelInvariant, Waits, UNCHANGED cl, Refuse
  PROVE  TunnelInvariant'
<1>1. HandlerGoes("ended") /\ sv'.to = sv.to
  BY Zenon, HandlerMoves DEF Refuse, HandshakeInvariant, HandlerOK
<1>2. Wire'
  BY Zenon, <1>1 DEF Wire, HandlerGoes, HandshakeInvariant, Waits
<1>3. QED
  BY Zenon, <1>1, <1>2, HandlerFrame DEF Waits

(* So does one that goes on without a target,                              *)
LEMMA MovedWire ==
  ASSUME TunnelInvariant, Waits, UNCHANGED <<cl, closed>>, c2s # <<>>, NEW st, HandlerGoes(st), sv'.to = sv.to, Wire'
  PROVE  TunnelInvariant'
BY Zenon, HandlerFrame DEF Waits

(* and one that hands a target over and confirms it.                       *)
LEMMA OpenedWire ==
  ASSUME TunnelInvariant, Waits, UNCHANGED <<cl, closed>>, c2s # <<>>, cl.st = "reply",
         cl.kind \in {"socks5", "socks4", "CONNECT"}, cl.cmd = "connect",
         HandlerGoes("tunnel"), NEW m, sv'.to = <<m>>, Reaches(m, cl.dst),
         c2s' = <<>>, NEW f, Opens(f), s2c' = <<f>>
  PROVE  TunnelInvariant'
<1>1. cl.data = 0 /\ sv.data = 0 /\ sv'.data = 0
  BY Zenon DEF TunnelInvariant, Counts, Waits, HandlerGoes
<1>2. c2s' = Sent(cl'.data) /\ s2c' = <<f>> \o Sent(sv'.data)
  BY Zenon, <1>1, Payload, Opened
<1>3. Answered'
  BY <1>2, Zenon DEF Answered
<1>4. Wire'
  BY Zenon, <1>2, <1>3 DEF Wire, WireTunnel, HandlerGoes
<1>5. GoesTo(m)
  BY Zenon DEF GoesTo
<1>6. QED
  BY Zenon, <1>4, <1>5, HandlerFrame DEF Waits

(* The parts of a request to the HTTP listener.                            *)
LEMMA RequestParts ==
  ASSUME NEW f \in Requests
  PROVE  f.f = cl.kind /\ f.v.to = RemoteAddress(cl.dst) /\ (cl.kind # "ver" => \A n : f # Field("ver", n))
<1>1. PICK l \in Logins : f = Field(cl.kind, [to |-> RemoteAddress(cl.dst), login |-> l])
  BY Zenon DEF Requests
<1>2. f.f = cl.kind /\ f.v = [to |-> RemoteAddress(cl.dst), login |-> l]
  BY Zenon, <1>1 DEF Field
<1>3. f.v.to = RemoteAddress(cl.dst)
  BY <1>2
<1>4. \A n : Field("ver", n).f = "ver"
  BY Zenon, FieldParts
<1>5. QED
  BY <1>2, <1>3, <1>4, Zenon

(* Peek of the mixed listener, and the entry to a protocol, keep the       *)
(* invariant of tunnels.                                                   *)
LEMMA PeekWire ==
  ASSUME HandshakeInvariant, TunnelInvariant, Peek
  PROVE  TunnelInvariant'
<1>1. sv.st = "peek" /\ Ready(c2s, 1) /\ UNCHANGED <<cl, c2s, s2c>> /\ Waits /\ c2s # <<>>
  BY DEF Peek, Ready, Waits
<1>2. \/ Refuse
      \/ \E st \in {"method", "socks4", "http"} : Enter(st) /\ UNCHANGED closed
  BY Zenon DEF Peek, handleSocks, handleConn
<1>3. \/ cl.kind = "socks5" /\ Wire5
      \/ cl.kind = "socks4" /\ Wire4
      \/ cl.kind = "CONNECT" /\ WireConnect
      \/ cl.kind = "GET" /\ WireGet
  BY Zenon, <1>1 DEF TunnelInvariant, Wire, WireTunnel
<1>4. \A st : Enter(st) => HandlerGoes(st) /\ sv'.to = sv.to
  BY Zenon, HandlerMoves DEF HandshakeInvariant, HandlerOK
<1>5. CASE cl.kind = "socks5" /\ Wire5
  <2>1. cl.st = "method" /\ c2s = Hello5(cl.login) /\ s2c = <<>>
    BY Zenon, <1>1, <1>5 DEF Wire5
  <2>2. c2s[1] = Field("ver", 5) /\ c2s[1].f = "ver" /\ c2s[1] # Field("ver", 4)
    <3>1. c2s[1] = Field("ver", 5)
      BY Zenon, <2>1 DEF Hello5
    <3>2. QED
      BY <3>1 DEF Field
  <2>3. Enter("method") /\ UNCHANGED closed
    BY Zenon, <1>5, <2>2 DEF Peek, handleSocks, handleConn
  <2>4. Wire'
    BY Zenon, <1>1, <1>4, <1>5, <2>1, <2>3 DEF Wire, Wire5, HandlerGoes
  <2>5. QED
    BY Zenon, <1>1, <1>4, <2>3, <2>4, MovedWire
<1>6. CASE cl.kind = "socks4" /\ Wire4
  <2>1. cl.st = "reply" /\ c2s = Hello4(cl.login, RemoteAddress(cl.dst), cl.cmd) /\ s2c = <<>>
    BY Zenon, <1>1, <1>6 DEF Wire4
  <2>2. c2s[1] = Field("ver", 4)
    BY <2>1 DEF Hello4
  <2>3. c2s[1].f = "ver" /\ c2s[1] # Field("ver", 5)
    BY <2>2 DEF Field
  <2>4. Enter("socks4") /\ UNCHANGED closed
    BY Zenon, <1>6, <2>2, <2>3 DEF Peek, handleSocks, handleConn
  <2>5. Wire'
    BY Zenon, <1>1, <1>4, <1>6, <2>1, <2>4 DEF Wire, Wire4, HandlerGoes
  <2>6. QED
    BY Zenon, <1>1, <1>4, <2>4, <2>5, MovedWire
<1>7. CASE cl.kind \in {"CONNECT", "GET"} /\ (WireConnect \/ WireGet)
  <2>1. c2s[1] \in Requests
    BY <1>1, <1>7 DEF WireConnect, WireGet, Ready
  <2>2. c2s[1].f # "ver" /\ c2s[1] # Field("ver", 5) /\ c2s[1] # Field("ver", 4)
    BY Zenon, <1>7, <2>1, RequestParts
  <2>3. Refuse \/ (Enter("http") /\ UNCHANGED closed)
    BY Zenon, <2>2 DEF Peek, handleSocks, handleConn
  <2>4. CASE Refuse
    BY Zenon, <1>1, <2>4, RefusedWire
  <2>5. CASE Enter("http") /\ UNCHANGED closed
    <3>1. Requests' = Requests
      BY Zenon, <1>1 DEF Requests
    <3>2. Wire'
      BY <1>1, <1>3, <1>4, <1>7, <2>5, <3>1 DEF Wire, WireConnect, WireGet, HandlerGoes
    <3>3. QED
      BY Zenon, <1>1, <1>4, <2>5, <3>2, MovedWire
  <2>6. QED
    BY Zenon, <2>3, <2>4, <2>5
<1>8. QED
  BY Zenon, <1>3, <1>5, <1>6, <1>7

(* ServerMethod keeps the invariant of tunnels.                            *)
LEMMA ServerMethodWire ==
  ASSUME HandshakeInvariant, TunnelInvariant, ServerMethod
  PROVE  TunnelInvariant'
<1> DEFINE v  == IF sv.auth # {} THEN 2 ELSE 0
           st == IF sv.auth # {} THEN "auth" ELSE "request"
<1>1. /\ sv.st = "method" /\ Ready(c2s, 2) /\ UNCHANGED <<cl, closed>> /\ Waits /\ c2s # <<>>
      /\ c2s' = Behind(c2s, 2) /\ s2c' = s2c \o <<Field("ver", 5), Field("method", v)>>
  BY DEF ServerMethod, Answer, Ready, Waits
<1>2. HandlerGoes(st) /\ sv'.to = sv.to
  BY Zenon, HandlerMoves DEF ServerMethod, HandshakeInvariant, HandlerOK
<1>3. cl.kind = "socks5" /\ cl.st = "method" /\ c2s = Hello5(cl.login) /\ s2c = <<>>
  BY Zenon, <1>1 DEF TunnelInvariant, Wire, Wire5, Wire4, WireConnect, WireGet, WireTunnel
<1>4. c2s' = <<>> /\ s2c' = <<Field("ver", 5), Field("method", v)>>
  BY Zenon, <1>1, <1>3, Behinds, FirstFields DEF Hello5
<1>5. v = (IF st = "auth" THEN 2 ELSE 0) /\ st \in {"auth", "request"}
  BY Zenon
<1>6. Wire'
  <2> HIDE DEF v, st
  <2> QED
  BY Zenon, <1>1, <1>2, <1>3, <1>4, <1>5 DEF Wire, Wire5, HandlerGoes
<1>7. QED
  BY Zenon, <1>1, <1>2, <1>6, MovedWire

(* ServerAuth keeps the invariant of tunnels.                              *)
LEMMA ServerAuthWire ==
  ASSUME HandshakeInvariant, TunnelInvariant, ServerAuth
  PROVE  TunnelInvariant'
<1>1. sv.st = "auth" /\ Ready(c2s, 1) /\ UNCHANGED cl /\ Waits /\ c2s # <<>> /\ c2s' = Behind(c2s, 1)
  <2>1. sv.st = "auth" /\ Ready(c2s, 1) /\ UNCHANGED cl /\ c2s' = Behind(c2s, 1)
    BY Zenon DEF ServerAuth
  <2>2. QED
    BY <2>1 DEF Ready, Waits
<1>2. \/ Refuse
      \/ /\ sv' = [sv EXCEPT !.st = "request", !.login = c2s[1].v]
         /\ s2c' = s2c \o <<Field("status", 0)>> /\ UNCHANGED closed
  <2> DEFINE l == c2s[1].v
  <2>1. IF l[1] # "" /\ l[2] # "" /\ Verify(sv.auth, l)
        THEN sv' = [sv EXCEPT !.st = "request", !.login = l] /\ Answer(<<Field("status", 0)>>) /\ UNCHANGED closed
        ELSE Refuse /\ Answer(<<Field("status", 1)>>)
    BY Zenon DEF ServerAuth
  <2> HIDE DEF l
  <2>2. \/ Refuse
        \/ sv' = [sv EXCEPT !.st = "request", !.login = l] /\ Answer(<<Field("status", 0)>>) /\ UNCHANGED closed
    BY <2>1, Zenon
  <2>3. QED
    BY <2>2, Zenon DEF Answer, l
<1>3. CASE Refuse
  BY Zenon, <1>1, <1>3, RefusedWire
<1>4. CASE /\ sv' = [sv EXCEPT !.st = "request", !.login = c2s[1].v]
           /\ s2c' = s2c \o <<Field("status", 0)>> /\ UNCHANGED closed
  <2>1. HandlerGoes("request") /\ sv'.to = sv.to
    BY Zenon, <1>4, HandlerMoves DEF HandshakeInvariant, HandlerOK
  <2>2. cl.kind = "socks5" /\ cl.st = "auth" /\ c2s = <<Field("user", cl.login)>> /\ s2c = <<>>
    BY Zenon, <1>1 DEF TunnelInvariant, Wire, Wire5, Wire4, WireConnect, WireGet, WireTunnel
  <2>3. c2s' = <<>> /\ s2c' = <<Field("status", 0)>>
    BY Zenon, <1>1, <1>4, <2>2, Behinds, FirstFields
  <2>4. Wire'
    BY Zenon, <1>1, <2>1, <2>2, <2>3 DEF Wire, Wire5, HandlerGoes
  <2>5. QED
    BY Zenon, <1>1, <1>4, <2>1, <2>4, MovedWire
<1>5. QED
  BY Zenon, <1>2, <1>3, <1>4

(* ServerRequest keeps the invariant of tunnels.                           *)
LEMMA ServerRequestWire ==
  ASSUME HandshakeInvariant, TunnelInvariant, ServerRequest
  PROVE  TunnelInvariant'
<1>1. sv.st = "request" /\ Ready(c2s, 3) /\ UNCHANGED cl /\ Waits /\ c2s # <<>> /\ c2s' = Behind(c2s, 3)
  BY DEF ServerRequest, Ready, Waits
<1>2. cl.kind = "socks5" /\ cl.st = "reply" /\ c2s = Request5 /\ s2c = <<>>
  BY Zenon, <1>1 DEF TunnelInvariant, Wire, Wire5, Wire4, WireConnect, WireGet, WireTunnel
<1>3. c2s' = <<>> /\ c2s[2].v = cl.cmd /\ c2s[3] = serializesSocksAddr(cl.dst)
  <2>1. c2s' = <<>> /\ c2s[2] = Field("cmd", cl.cmd) /\ c2s[3] = serializesSocksAddr(cl.dst)
    BY Zenon, <1>1, <1>2, Behinds DEF Request5
  <2>2. Field("cmd", cl.cmd).v = cl.cmd
    BY Zenon, FieldParts
  <2>3. QED
    BY <2>1, <2>2, Zenon
<1>4. \/ c2s[2].v = "connect" /\ Tunnel(parseSocksAddr(c2s[3])) /\ s2c' = s2c \o <<Field("rep", 0)>> /\ UNCHANGED closed
      \/ /\ c2s[2].v = "udp" /\ sv' = [sv EXCEPT !.st = "control"]
         /\ s2c' = s2c \o <<Field("rep", 0)>> /\ UNCHANGED closed
      \/ Refuse
  BY Zenon DEF ServerRequest, Answer
<1>5. CASE c2s[2].v = "connect" /\ Tunnel(parseSocksAddr(c2s[3])) /\ s2c' = s2c \o <<Field("rep", 0)>> /\ UNCHANGED closed
  <2> DEFINE m == parseSocksAddr(serializesSocksAddr(cl.dst))
  <2>1. HandlerGoes("tunnel") /\ sv'.to = <<m>>
    BY Zenon, <1>3, <1>5, HandlerMoves DEF HandshakeInvariant, HandlerOK
  <2>2. Reaches(m, cl.dst) /\ cl.cmd = "connect"
    BY Zenon, <1>2, <1>3, <1>5, WrittenAndRead DEF TunnelInvariant, Asked
  <2>3. s2c' = <<Field("rep", 0)>> /\ Opens(Field("rep", 0))
    BY <1>2, <1>5, FirstFields, FieldParts DEF Opens
  <2> HIDE DEF m
  <2>4. QED
    BY Zenon, <1>1, <1>2, <1>3, <1>5, <2>1, <2>2, <2>3, OpenedWire
<1>6. CASE /\ c2s[2].v = "udp" /\ sv' = [sv EXCEPT !.st = "control"]
           /\ s2c' = s2c \o <<Field("rep", 0)>> /\ UNCHANGED closed
  <2>1. HandlerGoes("control") /\ sv'.to = sv.to
    BY Zenon, <1>6, HandlerMoves DEF HandshakeInvariant, HandlerOK
  <2>2. Wire'
    BY Zenon, <1>1, <1>2, <1>3, <1>6, <2>1 DEF Wire, Wire5, HandlerGoes
  <2>3. QED
    BY Zenon, <1>1, <1>6, <2>1, <2>2, MovedWire
<1>7. CASE Refuse
  BY Zenon, <1>1, <1>7, RefusedWire
<1>8. QED
  BY Zenon, <1>4, <1>5, <1>6, <1>7

(* A SOCKS4 request, with the name behind it when there is one.              *)
LEMMA Greeting4 ==
  ASSUME NEW login, NEW a, NEW cmd
  PROVE  Hello4(login, a, cmd) =
           IF a.f = "host"
           THEN <<Field("ver", 4), Field("cmd", cmd), Field("ip", "reserved"), Field("userid", login[1]), Field("name", a.v)>>
           ELSE <<Field("ver", 4), Field("cmd", cmd), Field("ip", a.v), Field("userid", login[1])>>
<1>1. ASSUME NEW x, NEW y, NEW z, NEW u, NEW w
      PROVE  <<x, y, z, u>> \o <<w>> = <<x, y, z, u, w>> /\ <<x, y, z, u>> \o <<>> = <<x, y, z, u>>
  <2>1. <<x, y, z, u>> \o <<w>> = <<x, y, z, u, w>>
    <3> DEFINE S == {x, y, z, u, w}
               s == <<x, y, z, u>>
               t == <<x, y, z, u, w>>
    <3>1. s \in Seq(S) /\ Len(s) = 4 /\ s[1] = x /\ s[2] = y /\ s[3] = z /\ s[4] = u
      OBVIOUS
    <3>2. t \in Seq(S) /\ Len(t) = 5 /\ t[1] = x /\ t[2] = y /\ t[3] = z /\ t[4] = u /\ t[5] = w
      OBVIOUS
    <3>3. <<w>> \in Seq(S) /\ Len(<<w>>) = 1 /\ <<w>>[1] = w
      OBVIOUS
    <3> HIDE DEF S, s, t
    <3>4. PICK r : r = <<w>>
      BY Zenon
    <3>5. /\ s \o r \in Seq(S)
          /\ Len(s \o r) = Len(s) + Len(r)
          /\ \A i \in 1 .. Len(s) + Len(r) : (s \o r)[i] = IF i <= Len(s) THEN s[i] ELSE r[i - Len(s)]
      BY <3>1, <3>3, <3>4, ListsJoined, Zenon
    <3>6. r \in Seq(S) /\ Len(r) = 1 /\ r[1] = w
      BY Zenon, <3>3, <3>4
    <3>7. \A i \in 1..5 : (s \o r)[i] = t[i]
      BY <3>1, <3>2, <3>5, <3>6
    <3>8. s \o r = t
      <4>1. Len(s \o r) = Len(t) /\ \A i \in 1 .. Len(s \o r) : (s \o r)[i] = t[i]
        BY <3>1, <3>2, <3>5, <3>6, <3>7
      <4>2. QED
        BY <3>2, <3>5, <4>1, SameLists, Zenon
    <3>9. QED
      BY <3>4, <3>8, Zenon DEF s, t
  <2>2. <<x, y, z, u>> \o <<>> = <<x, y, z, u>>
    OBVIOUS
  <2>3. QED
    BY Zenon, <2>1, <2>2
<1>2. QED
  BY Zenon, <1>1 DEF Hello4

(* The SOCKS4 handler keeps the invariant of tunnels.                      *)
LEMMA Server4Wire ==
  ASSUME HandshakeInvariant, TunnelInvariant, Server4
  PROVE  TunnelInvariant'
<1> DEFINE a     == RemoteAddress(cl.dst)
           named == Ready(c2s, 4) /\ c2s[3].v = "reserved"
           n     == IF named THEN 5 ELSE 4
           m     == parseSocksAddr(IF named THEN Field("host", c2s[5].v) ELSE Field("v4", c2s[3].v))
           l     == <<c2s[4].v, "">>
<1>1. sv.st = "socks4" /\ Ready(c2s, n) /\ UNCHANGED cl /\ c2s' = Behind(c2s, n)
  BY Zenon DEF Server4
<1>2. \/ Refuse
      \/ /\ sv' = [sv EXCEPT !.st = "tunnel", !.to = <<m>>, !.login = l]
         /\ s2c' = s2c \o <<Field("code", 90)>> /\ UNCHANGED closed
  BY Zenon DEF Server4, Answer
<1>3. Waits /\ c2s # <<>>
  BY <1>1 DEF Ready, Waits
<1>4. cl.kind = "socks4" /\ cl.st = "reply" /\ c2s = Hello4(cl.login, a, cl.cmd) /\ s2c = <<>>
  BY Zenon, <1>1, <1>3 DEF TunnelInvariant, Wire, Wire5, Wire4, WireConnect, WireGet, WireTunnel
<1>5. cl.cmd = "connect" /\ cl.dst \in Targets
  BY Zenon, <1>4 DEF TunnelInvariant, Asked
<1>6. c2s' = <<>> /\ Reaches(m, cl.dst)
  <2>1. CASE a.f = "host"
    <3>1. c2s = <<Field("ver", 4), Field("cmd", cl.cmd), Field("ip", "reserved"), Field("userid", cl.login[1]), Field("name", a.v)>>
      BY Zenon, <1>4, <2>1, Greeting4
    <3>2. c2s[3] = Field("ip", "reserved") /\ c2s[5] = Field("name", a.v) /\ Ready(c2s, 4) /\ Behind(c2s, 5) = <<>>
      <4>1. Behind(c2s, 5) = <<>>
        BY Zenon, <3>1, Behinds
      <4>2. c2s[3] = Field("ip", "reserved") /\ c2s[5] = Field("name", a.v)
        BY Zenon, <3>1
      <4>3. Ready(c2s, 4)
        BY <3>1 DEF Ready
      <4>4. QED
        BY Zenon, <4>1, <4>2, <4>3
    <3>3. Field("ip", "reserved").v = "reserved" /\ Field("name", a.v).v = a.v
      BY Zenon, FieldParts
    <3>4. c2s[3].v = "reserved" /\ c2s[5].v = a.v
      BY <3>2, <3>3, Zenon
    <3>5. named /\ m = parseSocksAddr(Field("host", a.v))
      BY <3>2, <3>4, Zenon
    <3>6. n = 5
      BY Zenon, <3>5
    <3>7. Reaches(m, cl.dst)
      BY <1>5, <2>1, <3>5, WrittenAndRead, Zenon
    <3>8. QED
      BY Zenon, <1>1, <3>2, <3>6, <3>7
  <2>2. CASE a.f # "host"
    <3>1. c2s = <<Field("ver", 4), Field("cmd", cl.cmd), Field("ip", a.v), Field("userid", cl.login[1])>>
      BY Zenon, <1>4, <2>2, Greeting4
    <3>2. c2s[3] = Field("ip", a.v) /\ Behind(c2s, 4) = <<>>
      BY Zenon, <3>1, Behinds
    <3>3. Field("ip", a.v).v = a.v
      BY Zenon, FieldParts
    <3>4. c2s[3].v = a.v /\ a.v # "reserved"
      BY <1>5, <2>2, <3>2, <3>3, WrittenAndRead, Zenon
    <3>5. ~named /\ m = parseSocksAddr(Field("v4", a.v))
      BY <3>4, Zenon
    <3>6. n = 4
      BY Zenon, <3>5
    <3>7. Reaches(m, cl.dst)
      BY <1>5, <2>2, <3>5, WrittenAndRead, Zenon
    <3>8. QED
      BY Zenon, <1>1, <3>2, <3>6, <3>7
  <2>3. QED
    BY Zenon, <2>1, <2>2
<1> HIDE DEF a, named, n, m, l
<1>7. CASE Refuse
  BY Zenon, <1>1, <1>3, <1>7, RefusedWire
<1>8. CASE /\ sv' = [sv EXCEPT !.st = "tunnel", !.to = <<m>>, !.login = l]
           /\ s2c' = s2c \o <<Field("code", 90)>> /\ UNCHANGED closed
  <2>1. HandlerGoes("tunnel") /\ sv'.to = <<m>>
    BY Zenon, <1>8, HandlerMoves DEF HandshakeInvariant, HandlerOK
  <2>2. s2c' = <<Field("code", 90)>> /\ Opens(Field("code", 90))
    BY <1>4, <1>8, FirstFields, FieldParts DEF Opens
  <2>3. QED
    BY Zenon, <1>1, <1>3, <1>4, <1>5, <1>6, <1>8, <2>1, <2>2, OpenedWire
<1>9. QED
  BY Zenon, <1>2, <1>7, <1>8

(* A round of HandleConn: the request it takes, and where it leaves the      *)
(* handler.                                                                  *)
LEMMA HttpRound ==
  ASSUME HandshakeInvariant, TunnelInvariant, ServerHttp
  PROVE  \/ /\ c2s[1].f = "CONNECT" /\ HandlerGoes("tunnel") /\ sv'.to = <<parseHTTPAddr(c2s[1].v.to)>>
            /\ s2c' = s2c \o <<Field("status", 200)>> /\ UNCHANGED closed
         \/ /\ HandlerGoes("ended") \/ (HandlerGoes("http") /\ UNCHANGED closed)
            /\ sv'.to = sv.to
            /\ \E c \in {403, 407} : s2c' = s2c \o <<Field("status", c)>>
         \/ /\ HandlerGoes("ended") \/ (HandlerGoes("http") /\ UNCHANGED closed)
            /\ c2s[1].f # "CONNECT" /\ sv'.to = <<parseSocksAddr(c2s[1].v.to)>>
<1> DEFINE r    == c2s[1]
           l    == r.v.login
           code == IF sv.trusted THEN 200 ELSE authenticate(l)
           seen == IF sv.trusted THEN sv ELSE [sv EXCEPT !.trusted = code = 200, !.auth = users, !.login = l]
<1>1. \/ code = 200 /\ r.f = "CONNECT" /\ sv' = NewHTTPS(seen, r.v.to) /\ Answer(<<Field("status", 200)>>) /\ UNCHANGED closed
      \/ /\ ~(code = 200 /\ r.f = "CONNECT")
         /\ \E c \in (IF code = 200 THEN {200, 502} ELSE {code}), keep \in BOOLEAN :
              /\ Answer(<<Field("status", c)>>)
              /\ sv' = [(IF code = 200 THEN newClient(seen, r.v.to) ELSE seen) EXCEPT !.st = IF keep THEN "http" ELSE "ended"]
              /\ IF keep THEN UNCHANGED closed ELSE CloseEnd("server")
  BY ZenonT(60) DEF ServerHttp
<1>2. code \in {200, 403, 407}
  BY DEF authenticate
<1>3. IsHandler(seen) /\ seen.kind = sv.kind /\ seen.data = sv.data /\ seen.to = sv.to
  <2> HIDE DEF code, l, r
  <2> QED
  BY Zenon DEF HandshakeInvariant, HandlerOK, IsHandler
<1> HIDE DEF code, seen, l, r
<1>4. CASE code = 200 /\ r.f = "CONNECT" /\ sv' = NewHTTPS(seen, r.v.to) /\ Answer(<<Field("status", 200)>>) /\ UNCHANGED closed
  <2>1. HandlerGoes("tunnel") /\ sv'.to = <<parseHTTPAddr(r.v.to)>>
    BY Zenon, <1>3, <1>4 DEF NewHTTPS, IsHandler, HandlerGoes
  <2>2. QED
    BY <1>4, <2>1, Zenon DEF Answer, r
<1>5. ASSUME ~(code = 200 /\ r.f = "CONNECT"),
             NEW c \in (IF code = 200 THEN {200, 502} ELSE {code}), NEW keep \in BOOLEAN,
             Answer(<<Field("status", c)>>),
             sv' = [(IF code = 200 THEN newClient(seen, r.v.to) ELSE seen) EXCEPT !.st = IF keep THEN "http" ELSE "ended"],
             IF keep THEN UNCHANGED closed ELSE CloseEnd("server")
      PROVE  \/ /\ HandlerGoes("ended") \/ (HandlerGoes("http") /\ UNCHANGED closed)
                /\ sv'.to = sv.to
                /\ \E d \in {403, 407} : s2c' = s2c \o <<Field("status", d)>>
             \/ /\ HandlerGoes("ended") \/ (HandlerGoes("http") /\ UNCHANGED closed)
                /\ r.f # "CONNECT" /\ sv'.to = <<parseSocksAddr(r.v.to)>>
  <2> DEFINE st == IF keep THEN "http" ELSE "ended"
  <2>1. HandlerGoes(st) => HandlerGoes("ended") \/ (HandlerGoes("http") /\ UNCHANGED closed)
    BY Zenon, <1>5
  <2>2. CASE code = 200
    <3>1. sv' = [newClient(seen, r.v.to) EXCEPT !.st = st]
      BY Zenon, <1>5, <2>2
    <3> HIDE DEF st
    <3>2. HandlerGoes(st) /\ sv'.to = <<parseSocksAddr(r.v.to)>>
      BY Zenon, <1>3, <3>1 DEF newClient, IsHandler, HandlerGoes
    <3>3. QED
      BY Zenon, <1>5, <2>1, <2>2, <3>2
  <2>3. CASE code # 200
    <3>1. sv' = [seen EXCEPT !.st = st] /\ c \in {403, 407}
      BY <1>2, <1>5, <2>3
    <3> HIDE DEF st
    <3>2. HandlerGoes(st) /\ sv'.to = sv.to
      BY <1>3, <3>1 DEF IsHandler, HandlerGoes
    <3>3. QED
      BY <1>5, <2>1, <3>1, <3>2 DEF Answer
  <2>4. QED
    BY Zenon, <2>2, <2>3
<1>6. CASE /\ ~(code = 200 /\ r.f = "CONNECT")
           /\ \E c \in (IF code = 200 THEN {200, 502} ELSE {code}), keep \in BOOLEAN :
                /\ Answer(<<Field("status", c)>>)
                /\ sv' = [(IF code = 200 THEN newClient(seen, r.v.to) ELSE seen) EXCEPT !.st = IF keep THEN "http" ELSE "ended"]
                /\ IF keep THEN UNCHANGED closed ELSE CloseEnd("server")
  <2>1. PICK c \in (IF code = 200 THEN {200, 502} ELSE {code}), keep \in BOOLEAN :
           /\ Answer(<<Field("status", c)>>)
           /\ sv' = [(IF code = 200 THEN newClient(seen, r.v.to) ELSE seen) EXCEPT !.st = IF keep THEN "http" ELSE "ended"]
           /\ IF keep THEN UNCHANGED closed ELSE CloseEnd("server")
    BY <1>6, Zenon
  <2>2. \/ /\ HandlerGoes("ended") \/ (HandlerGoes("http") /\ UNCHANGED closed)
           /\ sv'.to = sv.to
           /\ \E d \in {403, 407} : s2c' = s2c \o <<Field("status", d)>>
        \/ /\ HandlerGoes("ended") \/ (HandlerGoes("http") /\ UNCHANGED closed)
           /\ r.f # "CONNECT" /\ sv'.to = <<parseSocksAddr(r.v.to)>>
    BY <1>5, <1>6, <2>1
  <2>3. QED
    BY <2>2, Zenon DEF r
<1>7. QED
  BY <1>1, <1>4, <1>6, Zenon

(* The HTTP handler keeps the invariant of tunnels.                        *)
LEMMA ServerHttpWire ==
  ASSUME HandshakeInvariant, TunnelInvariant, ServerHttp
  PROVE  TunnelInvariant'
<1>1. sv.st = "http" /\ Ready(c2s, 1) /\ UNCHANGED cl /\ c2s' = Behind(c2s, 1)
  BY Zenon DEF ServerHttp
<1>2. Waits /\ c2s # <<>> /\ cl.st # "idle"
  BY <1>1 DEF Ready, Waits, HandshakeInvariant
<1>3. Requests' = Requests
  BY Zenon, <1>1 DEF Requests
<1>4. CASE cl.kind = "CONNECT" /\ WireConnect
  <2>1. PICK f \in Requests : cl.st = "reply" /\ c2s = <<f>> /\ s2c = <<>>
    BY Zenon, <1>1, <1>2, <1>4 DEF WireConnect
  <2>2. c2s[1] = f /\ c2s' = <<>>
    BY Zenon, <1>1, <2>1, Behinds
  <2>3. c2s[1].f = "CONNECT" /\ c2s[1].v.to = RemoteAddress(cl.dst)
    BY <1>4, <2>2, RequestParts, Zenon
  <2>4. CASE /\ HandlerGoes("tunnel") /\ sv'.to = <<parseHTTPAddr(c2s[1].v.to)>>
             /\ s2c' = s2c \o <<Field("status", 200)>> /\ UNCHANGED closed
    <3> DEFINE m == parseHTTPAddr(RemoteAddress(cl.dst))
    <3>1. sv'.to = <<m>>
      BY <2>3, <2>4, Zenon
    <3>2. Reaches(m, cl.dst) /\ cl.cmd = "connect"
      BY Zenon, <1>2, <1>4, WrittenAndRead DEF TunnelInvariant, Asked
    <3>3. s2c' = <<Field("status", 200)>> /\ Opens(Field("status", 200))
      BY <2>1, <2>4, FirstFields, FieldParts DEF Opens
    <3> HIDE DEF m
    <3>4. QED
      BY Zenon, <1>1, <1>2, <1>4, <2>1, <2>2, <2>4, <3>1, <3>2, <3>3, OpenedWire
  <2>5. ASSUME HandlerGoes("ended") \/ (HandlerGoes("http") /\ UNCHANGED closed), sv'.to = sv.to,
               NEW c \in {403, 407}, s2c' = s2c \o <<Field("status", c)>>
        PROVE  TunnelInvariant'
    <3>1. s2c' = <<Field("status", c)>>
      BY Zenon, <2>1, <2>5, FirstFields
    <3>2. Wire'
      BY <1>1, <1>2, <1>4, <2>1, <2>2, <2>5, <3>1 DEF Wire, WireConnect, HandlerGoes
    <3>3. QED
      BY Zenon, <1>1, <1>2, <2>5, <3>2, HandlerFrame DEF Waits
  <2>6. QED
    BY SMTT(40), <2>3, <2>4, <2>5, HttpRound
<1>5. CASE cl.kind = "GET" /\ WireGet
  <2>1. c2s[1] \in Requests /\ c2s' \in Seq(Requests)
    BY <1>1, <1>5 DEF WireGet, Ready, Behind
  <2>2. c2s[1].f = "GET" /\ c2s[1].v.to = RemoteAddress(cl.dst)
    BY <1>5, <2>1, RequestParts, Zenon
  <2>3. HandlerGoes("ended") \/ (HandlerGoes("http") /\ UNCHANGED closed)
    BY Zenon, <2>2, HttpRound
  <2>4. Wire'
    BY Zenon, <1>1, <1>2, <1>3, <1>5, <2>1, <2>3 DEF Wire, WireGet, HandlerGoes
  <2>5. sv'.to = sv.to \/ \E m : GoesTo(m)
    <3> DEFINE m == parseSocksAddr(RemoteAddress(cl.dst))
    <3>1. sv'.to = sv.to \/ sv'.to = <<parseSocksAddr(c2s[1].v.to)>>
      BY Zenon, <2>2, HttpRound
    <3>2. sv'.to = sv.to \/ sv'.to = <<m>>
      BY <2>2, <3>1, Zenon
    <3>3. Reaches(m, cl.dst) /\ cl.cmd = "connect"
      BY Zenon, <1>2, <1>5, WrittenAndRead DEF TunnelInvariant, Asked
    <3> HIDE DEF m
    <3>4. QED
      BY Zenon, <3>2, <3>3 DEF GoesTo
  <2>6. QED
    BY Zenon, <1>1, <1>2, <2>3, <2>4, <2>5, HandlerFrame DEF Waits
<1>6. QED
  BY Zenon, <1>1, <1>2, <1>4, <1>5 DEF TunnelInvariant, Wire, Wire5, Wire4, WireTunnel

(* A new connection starts with the invariant of tunnels.                  *)
LEMMA OpensWire ==
  ASSUME HandshakeInvariant, TunnelInvariant,
         NEW k \in {"socks5", "socks4", "CONNECT", "GET"}, NEW lo \in Logins, NEW m \in Targets,
         NEW c \in {"connect", "udp", "bind"}, NEW s \in {"socks", "mixed", "http", "open"},
         ClientOpens(k, lo, m, c, s)
  PROVE  TunnelInvariant'
<1>1. /\ cl.st = "idle" /\ UNCHANGED s2c
      /\ k \in {"socks5", "socks4"} => s \in {"socks", "mixed"}
      /\ c # "connect" => k = "socks5"
      /\ sv' = [sv EXCEPT !.kind = s, !.st = "peek"]
      /\ closed' = IF cl'.st = "failed" THEN {"client"} ELSE {}
  BY Zenon DEF ClientOpens
<1>2. /\ cl'.kind = k /\ cl'.login = lo /\ cl'.dst = m /\ cl'.cmd = c /\ cl'.data = cl.data
      /\ k = "socks5" => cl'.st = "method"
      /\ k = "socks4" => cl'.st \in {"reply", "failed"}
      /\ k \in {"CONNECT", "GET"} => cl'.st = "reply"
  BY Zenon DEF ClientOpens, HandshakeInvariant, IsClient
<1>3. /\ k = "socks5" => c2s' = Hello5(lo)
      /\ k = "socks4" => c2s' = IF cl'.st = "failed" THEN <<>> ELSE Hello4(lo, RemoteAddress(m), c)
      /\ k \in {"CONNECT", "GET"} => c2s' = shakeHand(k, lo, RemoteAddress(m))
  BY Zenon DEF ClientOpens
<1>4. sv'.kind = s /\ sv'.st = "peek" /\ sv'.to = sv.to /\ sv'.data = sv.data /\ sv.st = "idle" /\ sv.to = <<>>
  BY Zenon, <1>1 DEF HandshakeInvariant, HandlerOK, IsHandler
<1>5. s2c' = <<>>
  BY Zenon, <1>1, <1>4 DEF TunnelInvariant, Wire, Wire5, Wire4, WireConnect, WireGet, WireTunnel
<1>6. Wire'
  <2>1. CASE k = "socks5"
    <3>1. c2s' = Hello5(cl'.login)
      BY Zenon, <1>2, <1>3, <2>1
    <3>2. Wire5'
      BY Zenon, <1>2, <1>4, <1>5, <2>1, <3>1 DEF Wire5
    <3>3. QED
      BY Zenon, <1>2, <2>1, <3>2 DEF Wire
  <2>2. CASE k = "socks4"
    <3>1. cl'.st = "failed" => c2s' = <<>>
      BY Zenon, <1>3, <2>2
    <3>2. cl'.st = "reply" => c2s' = Hello4(cl'.login, RemoteAddress(cl'.dst), cl'.cmd)
      BY Zenon, <1>2, <1>3, <2>2
    <3>3. Wire4'
      BY Zenon, <1>2, <1>4, <1>5, <2>2, <3>1, <3>2 DEF Wire4
    <3>4. QED
      BY Zenon, <1>2, <2>2, <3>3 DEF Wire
  <2>3. CASE k \in {"CONNECT", "GET"}
    <3> DEFINE l == IF lo[2] = "" THEN NoLogin ELSE lo
               f == Field(k, [to |-> RemoteAddress(m), login |-> l])
    <3>1. c2s' = <<f>>
      BY Zenon, <1>3, <2>3 DEF shakeHand
    <3>2. l \in Logins
      BY Zenon, HandshakeAssumption DEF NoLogin
    <3>3. f \in Requests'
      <4> HIDE DEF l
      <4> QED
      BY Zenon, <1>2, <3>2 DEF Requests
    <3> HIDE DEF f
    <3>4. CASE k = "CONNECT"
      <4>1. WireConnect'
        BY Zenon, <1>2, <1>4, <1>5, <3>1, <3>3, <3>4 DEF WireConnect
      <4>2. QED
        BY Zenon, <1>2, <3>4, <4>1 DEF Wire
    <3>5. CASE k = "GET"
      <4>1. <<f>> \in Seq(Requests')
        BY <3>3
      <4>2. WireGet'
        BY Zenon, <1>2, <1>4, <3>1, <3>5, <4>1 DEF WireGet
      <4>3. QED
        BY Zenon, <1>2, <3>5, <4>2 DEF Wire
    <3>6. QED
      BY Zenon, <2>3, <3>4, <3>5
  <2>4. QED
    BY Zenon, <2>1, <2>2, <2>3
<1>7. Counts'
  BY Zenon, <1>1, <1>2, <1>4 DEF TunnelInvariant, Counts
<1>8. Asked'
  BY Zenon, <1>1, <1>2, <1>4 DEF Asked
<1>9. ToAsked' /\ Gone'
  BY Zenon, <1>1, <1>2, <1>4 DEF ToAsked, Gone
<1>10. QED
  BY Zenon, <1>6, <1>7, <1>8, <1>9 DEF TunnelInvariant

(* A dropped connection keeps the invariant of tunnels.                    *)
LEMMA DropWire ==
  ASSUME HandshakeInvariant, TunnelInvariant, DropConn
  PROVE  TunnelInvariant'
<1>1. cl.st # "idle" /\ sv.st # "tunnel" /\ c2s' = <<>> /\ s2c' = <<>> /\ UNCHANGED <<cl, sv>>
  BY Zenon DEF DropConn
<1>2. <<>> \in Seq(Requests') /\ ~WireTunnel
  BY <1>1 DEF WireTunnel
<1>3. Wire'
  <2>1. CASE cl.kind = "socks5" /\ Wire5
    BY Zenon, <1>1, <2>1 DEF Wire, Wire5
  <2>2. CASE cl.kind = "socks4" /\ Wire4
    BY Zenon, <1>1, <2>2 DEF Wire, Wire4
  <2>3. CASE cl.kind = "CONNECT" /\ WireConnect
    BY <1>1, <2>3 DEF Wire, WireConnect
  <2>4. CASE cl.kind = "GET" /\ WireGet
    BY Zenon, <1>1, <1>2, <2>4 DEF Wire, WireGet
  <2>5. CASE sv.st = "ended"
    BY Zenon, <1>1, <2>5 DEF Wire
  <2>6. QED
    BY Zenon, <1>1, <1>2, <2>1, <2>2, <2>3, <2>4, <2>5 DEF TunnelInvariant, Wire
<1>4. Counts' /\ Asked' /\ Gone'
  BY Zenon, <1>1 DEF TunnelInvariant, Counts, Asked, Gone
<1>5. ToAsked'
  BY <1>1, Zenon DEF TunnelInvariant, ToAsked
<1>6. QED
  BY Zenon, <1>3, <1>4, <1>5 DEF TunnelInvariant

(* So does a step that leaves the connection alone.                        *)
LEMMA QuietWire ==
  ASSUME TunnelInvariant, UNCHANGED <<cl, sv, c2s, s2c, closed>>
  PROVE  TunnelInvariant'
<1>1. Wire'
  <2>1. Wire5 => Wire5'
    BY Zenon DEF Wire5, Request5
  <2>2. Wire4 => Wire4'
    BY Zenon DEF Wire4
  <2>3. Requests' = Requests /\ (Answered => Answered')
    BY Zenon DEF Requests, Answered
  <2>4. (WireConnect => WireConnect') /\ (WireGet => WireGet') /\ (WireTunnel => WireTunnel')
    BY Zenon, <2>3 DEF WireConnect, WireGet, WireTunnel
  <2>5. QED
    BY Zenon, <2>1, <2>2, <2>4 DEF TunnelInvariant, Wire
<1>2. Counts' /\ Asked' /\ Gone' /\ ToAsked'
  BY Zenon DEF TunnelInvariant, Counts, Asked, Gone, ToAsked
<1>3. QED
  BY Zenon, <1>1, <1>2 DEF TunnelInvariant

(* Every step keeps the invariant of tunnels.                              *)
LEMMA TunnelStep ==
  ASSUME HandshakeInvariant, TunnelInvariant, [HandshakeNext]_handshakeVars
  PROVE  TunnelInvariant'
<1>1. CASE ClientStep
  BY Zenon, <1>1, MethodWire, AuthWire, ReplyWire, LostWire DEF ClientStep
<1>2. CASE ServerControl \/ ServerLost
  <2>1. Waits /\ UNCHANGED cl /\ Refuse
    BY Zenon, <1>2 DEF ServerControl, ServerLost, Waits
  <2>2. QED
    BY Zenon, <2>1, RefusedWire
<1>3. CASE ServerStep
  BY Zenon, <1>2, <1>3, PeekWire, ServerMethodWire, ServerAuthWire, ServerRequestWire, Server4Wire, ServerHttpWire DEF ServerStep
<1>4. CASE (\E us \in UserSets : SetAuthenticator(us)) \/ (\E l \in Logins : VerdictExpires(l)) \/ UNCHANGED handshakeVars
  BY Zenon, <1>4, QuietWire DEF SetAuthenticator, VerdictExpires, handshakeVars
<1>5. CASE \E k \in {"socks5", "socks4", "CONNECT", "GET"}, l \in Logins, m \in Targets,
             c \in {"connect", "udp", "bind"}, s \in {"socks", "mixed", "http", "open"} : ClientOpens(k, l, m, c, s)
  BY <1>5, OpensWire
<1>6. QED
  BY Zenon, <1>1, <1>3, <1>4, <1>5, ClientDataWire, ServerDataWire, DropWire DEF HandshakeNext

(* Whatever the protocol, the reloads, the drops and the interleaving of     *)
(* both ends, a flow is handed to the tunnel for the destination its client  *)
(* asked for by connect, and what is left on the connection for either side  *)
(* is exactly the other's payload (socks5 and socks4 ClientHandshake and     *)
(* ServerHandshake, shakeHand, HandleConn).                                  *)
THEOREM TunnelsAgree == HandshakeSpec => []TunnelAgrees
<1>1. HandshakeInit => TunnelInvariant
  <2> SUFFICES ASSUME HandshakeInit PROVE TunnelInvariant
    BY Zenon
  <2>1. Wire
    BY Zenon DEF HandshakeInit, Wire
  <2>2. Counts /\ Asked /\ ToAsked /\ Gone
    BY Zenon DEF HandshakeInit, Counts, Asked, ToAsked, Gone
  <2>3. QED
    BY Zenon, <2>1, <2>2 DEF TunnelInvariant
<1>2. HandshakeInvariant /\ TunnelInvariant /\ [HandshakeNext]_handshakeVars => TunnelInvariant'
  BY Zenon, TunnelStep
<1>3. TunnelInvariant => TunnelAgrees
  <2> SUFFICES ASSUME TunnelInvariant PROVE TunnelAgrees
    BY Zenon
  <2>1. sv.st = "tunnel" => WireTunnel
    BY Zenon DEF TunnelInvariant, Wire, Wire5, Wire4, WireConnect, WireGet
  <2>2. sv.to # <<>> => Names(sv.to[1]) # {} /\ Names(sv.to[1]) \subseteq Names(cl.dst) /\ cl.cmd = "connect"
    BY Zenon DEF TunnelInvariant, ToAsked, Reaches
  <2>3. QED
    BY Zenon, <2>1, <2>2 DEF TunnelAgrees, WireTunnel
<1>4. QED
  BY <1>1, <1>2, <1>3, HandlersOK, PTL DEF HandshakeSpec

(***************************************************************************)
(* Provider: the content in use.                                           *)
(***************************************************************************)
Places == {"idle", "start", "compare", "truncate", "write", "hash", "proxies", "setProxy"}

(* What has been loaded is one text the parser took, or nothing yet; the     *)
(* file of an HTTP vehicle is t or torn.                                     *)
AllAre(t) == hash = t /\ proxies = t /\ checked = t
FileIs(t) == vehicle = "HTTP" => file \in {t, Torn}
Settled   == \E t \in Texts \ Bad : AllAre(t) /\ FileIs(t)

(* Where the only fetch u stands, and what the parts hold there.             *)
FetchOK(u) ==
  /\ pc[u] = "start" => u = "initial" /\ AllAre(Nil)
  /\ pc[u] = "compare" => u # "initial" /\ Settled /\ buf[u] \in Contents
  /\ pc[u] \in {"truncate", "write", "hash", "proxies", "setProxy"} => buf[u] \in Texts \ Bad
  /\ pc[u] \in {"truncate", "write"} /\ u = "initial" => AllAre(Nil)
  /\ pc[u] = "truncate" /\ u # "initial" => Settled
  /\ pc[u] = "write" => file = Torn /\ (u # "initial" => Settled)
  /\ pc[u] \in {"hash", "proxies", "setProxy"} => FileIs(buf[u])
  /\ pc[u] \in {"proxies", "setProxy"} => hash = buf[u]
  /\ pc[u] = "setProxy" => proxies = buf[u]

ContentInvariant ==
  /\ pc \in [Fetchers -> Places] /\ buf \in [Fetchers -> Texts \cup {Nil}]
  /\ remote \in Contents /\ file \in Texts \cup {Nil}
  /\ vehicle \in {"HTTP", "File"}
  /\ ~overlap => /\ \A u, v \in Active : u = v
                 /\ \A u \in Active : FetchOK(u)
                 /\ Active = {} => Settled

(* A step of a fetch that runs alone, to place l with text c.                *)
Alone(u) ==
  /\ UNCHANGED <<vehicle, remote, overlap>>
  /\ u \in Fetchers /\ pc[u] # "idle"
  /\ \E l \in Places, c \in Texts \cup {Nil} : Goto(u, l, c)
  /\ file' \in Texts \cup {Nil}
  /\ ~overlap => IF pc'[u] = "idle" THEN Settled' ELSE FetchOK(u)'

(* A step of the one fetch under way that sets things in order keeps the   *)
(* invariant of contents.                                                  *)
LEMMA AloneKeeps ==
  ASSUME ContentInvariant, NEW u, Alone(u)
  PROVE  ContentInvariant'
<1>1. PICK l \in Places, c \in Texts \cup {Nil} : pc' = [pc EXCEPT ![u] = l] /\ buf' = [buf EXCEPT ![u] = c]
  BY Zenon DEF Alone, Goto
<1>2. u \in Active /\ Active' = IF l = "idle" THEN Active \ {u} ELSE Active
  BY Zenon, <1>1 DEF Alone, Active, ContentInvariant
<1>3. pc'[u] = l
  BY Zenon, <1>1 DEF ContentInvariant, Alone
<1>4. ~overlap => Active = {u}
  BY Zenon, <1>2 DEF ContentInvariant
<1>5. ~overlap' => /\ \A v, w \in Active' : v = w
                   /\ \A v \in Active' : FetchOK(v)'
                   /\ Active' = {} => Settled'
  BY Zenon, <1>2, <1>3, <1>4 DEF Alone
<1>6. pc' \in [Fetchers -> Places] /\ buf' \in [Fetchers -> Texts \cup {Nil}]
  BY Zenon, <1>1 DEF ContentInvariant
<1>7. QED
  BY Zenon, <1>5, <1>6 DEF ContentInvariant, Alone

(* The steps of an update are such steps,                                  *)
LEMMA FetchSteps ==
  ASSUME ContentInvariant, NEW u \in Fetchers, Step(u)
  PROVE  Alone(u)
<1> USE DEF ContentInvariant, Places, Texts, given, loaded, life
<1> DEFINE T == Texts \cup {Nil}
<1>1. ~overlap => pc[u] = "idle" \/ FetchOK(u)
  BY Zenon DEF Active
<1>2. CASE Compare(u)
  <2>1. pc[u] = "compare" /\ UNCHANGED <<vehicle, remote, overlap, hash, proxies, checked, file>>
    BY Zenon, <1>2 DEF Compare
  <2>2. CASE Return(u)
    BY Zenon, <1>1, <2>1, <2>2 DEF Return, Goto, Alone, FetchOK, Settled, AllAre, FileIs
  <2>3. CASE Parses(buf[u]) /\ Goto(u, IF vehicle = "File" THEN "hash" ELSE "truncate", buf[u])
    BY Zenon, <1>1, <2>1, <2>3 DEF Parses, Goto, Alone, FetchOK, Settled, AllAre, FileIs
  <2>4. QED
    BY Zenon, <1>2, <2>2, <2>3 DEF Compare
<1>3. CASE Truncate(u)
  BY Zenon, <1>1, <1>3 DEF Truncate, Goto, Alone, FetchOK, Settled, AllAre, FileIs
<1>4. CASE Write(u)
  BY Zenon, <1>1, <1>4 DEF Write, Goto, Alone, FetchOK, Settled, AllAre, FileIs
<1>5. CASE WriteFails(u)
  BY Zenon, <1>1, <1>5 DEF WriteFails, Goto, Alone, FetchOK, Settled, AllAre, FileIs
<1>6. CASE SetHash(u)
  BY Zenon, <1>1, <1>6 DEF SetHash, Goto, Alone, FetchOK, Settled, AllAre, FileIs
<1>7. CASE setProxies(u)
  BY Zenon, <1>1, <1>7 DEF setProxies, Goto, Alone, FetchOK, Settled, AllAre, FileIs
<1>8. CASE setProxy(u)
  BY Zenon, <1>1, <1>8 DEF setProxy, Return, Goto, Alone, FetchOK, Settled, AllAre, FileIs
<1>9. QED
  BY Zenon, <1>2, <1>3, <1>4, <1>5, <1>6, <1>7, <1>8 DEF Step

(* and so is Initial.                                                      *)
LEMMA InitialStep ==
  ASSUME ContentInvariant, Initial
  PROVE  Alone("initial")
<1> USE DEF ContentInvariant, Places, Texts, given, loaded, life
<1>1. "initial" \in Fetchers /\ (~overlap => FetchOK("initial")) /\ pc["initial"] = "start"
  BY Zenon DEF Active, Fetchers, Initial
<1>2. CASE Local # Nil /\ Parses(Local) /\ Goto("initial", "hash", Local)
  BY Zenon, <1>1, <1>2, ProviderAssumption DEF Initial, Local, Parses, Goto, Alone, FetchOK, AllAre, FileIs
<1>3. CASE Parses(remote) /\ Goto("initial", IF vehicle = "File" THEN "hash" ELSE "truncate", remote)
  BY Zenon, <1>1, <1>3, ProviderAssumption DEF Initial, Parses, Goto, Alone, FetchOK, AllAre, FileIs
<1>4. QED
  BY Zenon, <1>2, <1>3 DEF Initial

(* Unless two fetches of this process were on at once, a provider at rest    *)
(* uses, checks and compares with one text that the parser took, and its     *)
(* file holds that text or is torn, for any contents, any number of calls of *)
(* the API and of restarts (fetcher.Initial, fetcher.Update, onUpdate).      *)
THEOREM ProviderHasOneContent == Spec => []OneContent
<1>1. Init => ContentInvariant
  <2> SUFFICES ASSUME Init PROVE ContentInvariant
    BY Zenon
  <2>1. Active = {"initial"}
    BY Zenon DEF Init, Active, Fetchers
  <2>2. FetchOK("initial")
    BY Zenon DEF Init, FetchOK, Fetchers, AllAre
  <2>3. QED
    BY Zenon, <2>1, <2>2 DEF Init, ContentInvariant, Places, Texts
<1>2. ContentInvariant /\ [Next]_vars => ContentInvariant'
  <2> SUFFICES ASSUME ContentInvariant, [Next]_vars
               PROVE  ContentInvariant'
    BY Zenon
  <2>1. ASSUME NEW c \in Contents, Publish(c)
        PROVE  ContentInvariant'
    BY Zenon, <2>1 DEF Publish, given, loaded, life, ContentInvariant, Active, FetchOK, Settled, AllAre, FileIs
  <2>2. CASE Initial
    BY Zenon, <2>2, InitialStep, AloneKeeps
  <2>3. ASSUME NEW u \in Fetchers, Update(u)
        PROVE  ContentInvariant'
    <3>1. pc' = [pc EXCEPT ![u] = "compare"] /\ buf' = [buf EXCEPT ![u] = remote] /\ pc[u] = "idle"
      BY Zenon, <2>3 DEF Update, Goto
    <3>2. /\ UNCHANGED <<vehicle, ticker, kept, remote, hash, proxies, checked, file>>
          /\ overlap' = (overlap \/ Active # {})
      BY Zenon, <2>3 DEF Update, given, loaded
    <3>3. u # "initial"
      BY Zenon, <2>3, ProviderAssumption DEF Update
    <3>4. Active' = Active \cup {u} /\ pc'[u] = "compare" /\ buf'[u] = remote
      BY Zenon, <3>1 DEF ContentInvariant, Active
    <3>5. ~overlap' => Active' = {u} /\ FetchOK(u)'
      BY Zenon, <3>2, <3>3, <3>4 DEF ContentInvariant, FetchOK, Settled, AllAre, FileIs
    <3>6. pc' \in [Fetchers -> Places] /\ buf' \in [Fetchers -> Texts \cup {Nil}]
      BY Zenon, <3>1 DEF ContentInvariant, Places, Texts
    <3>7. QED
      BY Zenon, <3>2, <3>5, <3>6 DEF ContentInvariant
  <2>4. ASSUME NEW u \in Fetchers, Step(u)
        PROVE  ContentInvariant'
    BY Zenon, <2>4, FetchSteps, AloneKeeps
  <2>5. CASE Drop \/ stopProxyProvider \/ StopLoop \/ UNCHANGED vars
    <3>1. UNCHANGED <<vehicle, remote, pc, buf, hash, proxies, checked, file, overlap>>
      BY Zenon, <2>5 DEF Drop, stopProxyProvider, StopLoop, vars, given, loaded
    <3>2. QED
      BY Zenon, <3>1 DEF ContentInvariant, Active, FetchOK, Settled, AllAre, FileIs
  <2>6. CASE Crash
    <3>1. Active' = {"initial"}
      BY Zenon, <2>6 DEF Crash, Active, Fetchers
    <3>2. FetchOK("initial")'
      BY Zenon, <2>6 DEF Crash, FetchOK, Fetchers, AllAre
    <3>3. QED
      BY Zenon, <2>6, <3>1, <3>2 DEF Crash, given, ContentInvariant, Places, Texts
  <2>7. QED
    BY Zenon, <2>1, <2>2, <2>3, <2>4, <2>5, <2>6 DEF Next
<1>3. ContentInvariant => OneContent
  BY Zenon DEF ContentInvariant, OneContent, Settled, AllAre, FileIs
<1>4. QED
  BY <1>1, <1>2, <1>3, PTL DEF Spec
=============================================================================
