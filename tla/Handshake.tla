----------------------------- MODULE Handshake ------------------------------
(* Opening a tunnel through a SOCKS5, SOCKS4(a) or HTTP proxy: the client  *)
(* half of this program (the outbound adapters) against its server half    *)
(* (the inbound listeners), as when one instance is the proxy of another.  *)
(* Both ends send fields down a connection; each side takes a step when    *)
(* what it reads with io.ReadFull is there.  The listeners' authenticator  *)
(* may be replaced by a reload at any time, the connection may drop at any *)
(* time.                                                                   *)
EXTENDS Naturals, Sequences, FiniteSets

CONSTANTS
  Targets,   \* metadata of the flows: [t : type, h : host name, ip : address], "" when absent
  Logins,    \* user and password of a client; NoLogin is none
  UserSets,  \* the users of the configurations; {} leaves the listeners without authenticator
  MaxData    \* bound: payload fields each side sends through the tunnel

ASSUME HandshakeAssumption ==
  /\ UNION UserSets \subseteq Logins /\ <<"", "">> \in Logins \ UNION UserSets
  /\ MaxData \in Nat
  /\ \A m \in Targets : IF m.t = "host" THEN m.h # "" ELSE m.ip # ""
  /\ \A m \in Targets : m.ip \notin {"name.", "reserved"}  \* an IP is no name, and none is 0.0.0.x

VARIABLES
  cl,       \* client: kind, login, dst, cmd, state
  sv,       \* server handler: listener, state, the users it read, HTTP trust, login, target handed to the tunnel
  c2s, s2c, \* fields on their way
  closed,   \* the ends that closed the connection
  users,    \* the authenticator of authStore, {} for nil
  verdicts  \* cached verdicts of the HTTP listener: function from logins

handshakeVars == <<cl, sv, c2s, s2c, closed, users, verdicts>>

Field(f, v)  == [f |-> f, v |-> v]
Ready(s, n)  == Len(s) >= n
Behind(s, n) == SubSeq(s, n + 1, Len(s))
NoLogin      == <<"", "">>
Verify(us, login) == login \in us
TrimDot(h)   == IF h = "name." THEN "name" ELSE h

-----------------------------------------------------------------------------
(* Addresses. *)

(* serializesSocksAddr: by address type, the name or the IP. *)
serializesSocksAddr(m) == Field(m.t, IF m.t = "host" THEN m.h ELSE m.ip)
(* Metadata.RemoteAddress: the name when there is one (which may spell the IP). *)
RemoteAddress(m) == IF m.h # m.ip /\ m.h # "" THEN Field("host", m.h) ELSE Field(m.t, m.ip)
(* parseSocksAddr, the trailing dot of a name cut off. *)
parseSocksAddr(a) == IF a.f = "host" THEN [t |-> "host", h |-> TrimDot(a.v), ip |-> ""]
                     ELSE [t |-> a.f, h |-> "", ip |-> a.v]
(* parseHTTPAddr: an IP is kept as the host too. *)
parseHTTPAddr(a) == IF a.f = "host" THEN [t |-> "host", h |-> TrimDot(a.v), ip |-> ""]
                    ELSE [t |-> a.f, h |-> a.v, ip |-> a.v]

-----------------------------------------------------------------------------
HandshakeInit ==
  /\ cl = [kind |-> "none", login |-> NoLogin, dst |-> [t |-> "host", h |-> "", ip |-> ""], cmd |-> "connect", st |-> "idle", data |-> 0]
  /\ sv = [kind |-> "none", st |-> "idle", auth |-> {}, trusted |-> FALSE, login |-> NoLogin, to |-> <<>>, data |-> 0]
  /\ c2s = <<>> /\ s2c = <<>> /\ closed = {}
  /\ users = {} /\ verdicts = [l \in {} |-> TRUE]

(* Leaving a connection: closed by its owner, or dropped unreferenced and  *)
(* closed by the collector, as after the adapters' deferred safeConnClose, *)
(* which has captured a nil error.                                         *)
CloseEnd(e) == closed' = closed \cup {e}

(* What the client sends first: socks5.ClientHandshake,                    *)
(* socks4.ClientHandshake (0.0.0.x and the name for a name) and shakeHand. *)
Hello5(login) == <<Field("ver", 5), Field("methods", IF login[1] = "" THEN 0 ELSE 2)>>
Hello4(login, a, cmd) ==
  <<Field("ver", 4), Field("cmd", cmd), Field("ip", IF a.f = "host" THEN "reserved" ELSE a.v), Field("userid", login[1])>>
  \o IF a.f = "host" THEN <<Field("name", a.v)>> ELSE <<>>
shakeHand(kind, login, a) == <<Field(kind, [to |-> a, login |-> IF login[2] = "" THEN NoLogin ELSE login])>>

(* The client dials and sends, at a listener for its protocol (a SOCKS     *)
(* greeting holds no line end: at an HTTP port both sides would wait);     *)
(* SOCKS4 has no IPv6.                                                     *)
ClientOpens(kind, login, dst, cmd, lis) ==
  /\ cl.st = "idle"
  /\ kind \in {"socks5", "socks4"} => lis \in {"socks", "mixed"}
  /\ cmd # "connect" => kind = "socks5"
  /\ cl' = [cl EXCEPT !.kind = kind, !.login = login, !.dst = dst, !.cmd = cmd,
                      !.st = CASE kind = "socks5" -> "method"
                               [] kind = "socks4" /\ RemoteAddress(dst).f = "v6" -> "failed"
                               [] OTHER -> "reply"]
  /\ c2s' = CASE kind = "socks5" -> Hello5(login)
              [] kind = "socks4" -> IF cl'.st = "failed" THEN <<>> ELSE Hello4(login, RemoteAddress(dst), cmd)
              [] kind \in {"CONNECT", "GET"} -> shakeHand(kind, login, RemoteAddress(dst))
  /\ sv' = [sv EXCEPT !.kind = lis, !.st = "peek"]
  /\ closed' = IF cl'.st = "failed" THEN {"client"} ELSE {}
  /\ UNCHANGED <<s2c, users, verdicts>>

(* socks5.ClientHandshake, at the method, the authentication and the request. *)
Request5 == <<Field("ver", 5), Field("cmd", cl.cmd), serializesSocksAddr(cl.dst)>>
Fails == cl' = [cl EXCEPT !.st = "failed"] /\ CloseEnd("client") /\ UNCHANGED c2s
ClientMethod ==
  /\ cl.st = "method" /\ Ready(s2c, 2)
  /\ s2c' = Behind(s2c, 2)
  /\ CASE s2c[2].v = 2 /\ cl.login[1] # "" ->
            /\ cl' = [cl EXCEPT !.st = "auth"]
            /\ c2s' = c2s \o <<Field("user", cl.login)>>
            /\ UNCHANGED closed
       [] s2c[2].v = 0 ->
            cl' = [cl EXCEPT !.st = "reply"] /\ c2s' = c2s \o Request5 /\ UNCHANGED closed
       [] OTHER -> Fails
  /\ UNCHANGED <<sv, users, verdicts>>
ClientAuth ==
  /\ cl.st = "auth" /\ Ready(s2c, 1)
  /\ s2c' = Behind(s2c, 1)
  /\ IF s2c[1].v = 0
     THEN cl' = [cl EXCEPT !.st = "reply"] /\ c2s' = c2s \o Request5 /\ UNCHANGED closed
     ELSE Fails
  /\ UNCHANGED <<sv, users, verdicts>>

(* Fault: SOCKS replies are read through a buffer that is dropped, too. *)
ClientReplyBuffered ==
  /\ cl.st = "reply" /\ Ready(s2c, 1)
  /\ \E n \in 1..Len(s2c) : s2c' = Behind(s2c, n)
  /\ IF s2c[1].v \in {0, 90, 200}
     THEN cl' = [cl EXCEPT !.st = "open"] /\ UNCHANGED <<c2s, closed>>
     ELSE Fails
  /\ UNCHANGED <<sv, users, verdicts>>
(* The answer to the request: SOCKS5 (whose REP code is not looked at),    *)
(* SOCKS4, and HTTP, where shakeHand's bufio.Reader also takes what has    *)
(* arrived behind the response.                                            *)
ClientReply ==
  /\ cl.st = "reply" /\ Ready(s2c, 1)
  /\ IF cl.kind = "CONNECT"
     THEN \E n \in 1..Len(s2c) : s2c' = Behind(s2c, n)
     ELSE s2c' = Behind(s2c, 1)
  /\ IF s2c[1].v \in {0, 90, 200}
     THEN cl' = [cl EXCEPT !.st = "open"] /\ UNCHANGED <<c2s, closed>>
     ELSE Fails
  /\ UNCHANGED <<sv, users, verdicts>>

(* The connection ends under a client that is still waiting. *)
ClientLost ==
  /\ cl.st \in {"method", "auth", "reply"} /\ closed # {} /\ s2c = <<>>
  /\ Fails
  /\ UNCHANGED <<sv, s2c, users, verdicts>>

-----------------------------------------------------------------------------
(* The listeners' handler. *)

Answer(fs)   == s2c' = s2c \o fs
Refuse       == sv' = [sv EXCEPT !.st = "ended"] /\ CloseEnd("server")
Enter(st)    == sv' = [sv EXCEPT !.st = st, !.auth = users, !.trusted = sv.kind = "open"]
Tunnel(m)    == sv' = [sv EXCEPT !.st = "tunnel", !.to = <<m>>]

(* handleSocks: the protocol by the first byte; SOCKS reads the            *)
(* authenticator here, once.                                               *)
handleSocks ==
  CASE c2s[1] = Field("ver", 5) -> Enter("method") /\ UNCHANGED closed
    [] c2s[1] = Field("ver", 4) -> Enter("socks4") /\ UNCHANGED closed
    [] OTHER -> Refuse
(* handleConn of the mixed listener.  The HTTP listeners go straight to    *)
(* HandleConn; "open" is one without cache, which authenticates nobody.    *)
handleConn == IF c2s[1].f = "ver" THEN handleSocks ELSE Enter("http") /\ UNCHANGED closed
Peek ==
  /\ sv.st = "peek" /\ Ready(c2s, 1)
  /\ IF sv.kind = "socks" THEN handleSocks ELSE handleConn
  /\ UNCHANGED <<cl, c2s, s2c, users, verdicts>>

(* socks5.ServerHandshake up to the method, the user and the request. *)
ServerMethod ==
  /\ sv.st = "method" /\ Ready(c2s, 2)
  /\ c2s' = Behind(c2s, 2)
  /\ Answer(<<Field("ver", 5), Field("method", IF sv.auth # {} THEN 2 ELSE 0)>>)
  /\ sv' = [sv EXCEPT !.st = IF sv.auth # {} THEN "auth" ELSE "request"]
  /\ UNCHANGED <<cl, closed, users, verdicts>>
ServerAuth ==
  /\ sv.st = "auth" /\ Ready(c2s, 1)
  /\ c2s' = Behind(c2s, 1)
  /\ LET l == c2s[1].v
     IN  IF l[1] # "" /\ l[2] # "" /\ Verify(sv.auth, l)
         THEN sv' = [sv EXCEPT !.st = "request", !.login = l] /\ Answer(<<Field("status", 0)>>) /\ UNCHANGED closed
         ELSE Refuse /\ Answer(<<Field("status", 1)>>)
  /\ UNCHANGED <<cl, users, verdicts>>
(* Fault: a command that is not served is left without closing. *)
ServerRequestLeft ==
  /\ sv.st = "request" /\ Ready(c2s, 3)
  /\ c2s' = Behind(c2s, 3)
  /\ CASE c2s[2].v = "connect" -> Tunnel(parseSocksAddr(c2s[3])) /\ Answer(<<Field("rep", 0)>>) /\ UNCHANGED closed
       [] c2s[2].v = "udp"     -> sv' = [sv EXCEPT !.st = "control"] /\ Answer(<<Field("rep", 0)>>) /\ UNCHANGED closed
       [] OTHER -> sv' = [sv EXCEPT !.st = "ended"] /\ UNCHANGED <<s2c, closed>>
  /\ UNCHANGED <<cl, users, verdicts>>
ServerRequest ==
  /\ sv.st = "request" /\ Ready(c2s, 3)
  /\ c2s' = Behind(c2s, 3)
  /\ CASE c2s[2].v = "connect" -> Tunnel(parseSocksAddr(c2s[3])) /\ Answer(<<Field("rep", 0)>>) /\ UNCHANGED closed
       [] c2s[2].v = "udp"     -> sv' = [sv EXCEPT !.st = "control"] /\ Answer(<<Field("rep", 0)>>) /\ UNCHANGED closed
       [] OTHER -> Refuse /\ UNCHANGED s2c
  /\ UNCHANGED <<cl, users, verdicts>>
(* waitUDPControlConn: read and discarded until the client is gone or idle.   *)
ServerControl ==
  /\ sv.st = "control"
  /\ Refuse
  /\ UNCHANGED <<cl, c2s, s2c, users, verdicts>>

(* socks4.ServerHandshake: the user ID is checked with an empty password   *)
(* and the reply sent whatever the verdict.                                *)
Server4 ==
  /\ sv.st = "socks4"
  /\ LET named == Ready(c2s, 4) /\ c2s[3].v = "reserved"
         n     == IF named THEN 5 ELSE 4
         m     == parseSocksAddr(IF named THEN Field("host", c2s[5].v) ELSE Field("v4", c2s[3].v))
     IN  /\ Ready(c2s, n)
         /\ c2s' = Behind(c2s, n)
         /\ IF sv.auth # {} => Verify(sv.auth, <<c2s[4].v, "">>)
            THEN /\ sv' = [sv EXCEPT !.st = "tunnel", !.to = <<m>>, !.login = <<c2s[4].v, "">>]
                 /\ Answer(<<Field("code", 90)>>)
                 /\ UNCHANGED closed
            ELSE Refuse /\ Answer(<<Field("code", 93)>>)
  /\ UNCHANGED <<cl, users, verdicts>>

(* authenticate: none needed, no credential, or the verdict of the cache   *)
(* or of the authenticator in force, which is cached for a minute.         *)
CachedVerdict(l) == IF l \in DOMAIN verdicts THEN verdicts[l] ELSE Verify(users, l)
(* Fault: any credential will do. *)
authenticateAny(l) == IF users # {} /\ l = NoLogin THEN 407 ELSE 200
authenticate(l) ==
  CASE users = {} -> 200
    [] users # {} /\ l = NoLogin -> 407
    [] OTHER -> IF CachedVerdict(l) THEN 200 ELSE 403
Remember(l) ==
  verdicts' = IF users = {} \/ l = NoLogin THEN verdicts
              ELSE [k \in DOMAIN verdicts \cup {l} |-> IF k = l THEN CachedVerdict(l) ELSE verdicts[k]]

(* What the tunnel is handed: the connection of a CONNECT, or a pipe for   *)
(* the http.Client that forwards a plain request.                          *)
NewHTTPS(s, to)  == [s EXCEPT !.st = "tunnel", !.to = <<parseHTTPAddr(to)>>]
newClient(s, to) == [s EXCEPT !.to = <<parseSocksAddr(to)>>]

(* http.HandleConn, one round of its loop.  CONNECT hands the connection   *)
(* over with its buffered reader; another request is dialled through the   *)
(* tunnel by the http.Client and answered, 502 when that fails; the loop   *)
(* goes on while the client asks to keep the connection, which stays       *)
(* trusted.                                                                *)
ServerHttp ==
  /\ sv.st = "http" /\ Ready(c2s, 1)
  /\ c2s' = Behind(c2s, 1)
  /\ LET r    == c2s[1]
         code == IF sv.trusted THEN 200 ELSE authenticate(r.v.login)
         seen == IF sv.trusted THEN sv ELSE [sv EXCEPT !.trusted = code = 200, !.auth = users, !.login = r.v.login]
     IN  /\ IF sv.trusted THEN UNCHANGED verdicts ELSE Remember(r.v.login)
         /\ IF code = 200 /\ r.f = "CONNECT"
            THEN /\ sv' = NewHTTPS(seen, r.v.to)
                 /\ Answer(<<Field("status", 200)>>)
                 /\ UNCHANGED closed
            ELSE \E c \in (IF code = 200 THEN {200, 502} ELSE {code}), keep \in BOOLEAN :
                   /\ Answer(<<Field("status", c)>>)
                   /\ sv' = [(IF code = 200 THEN newClient(seen, r.v.to) ELSE seen) EXCEPT !.st = IF keep THEN "http" ELSE "ended"]
                   /\ IF keep THEN UNCHANGED closed ELSE CloseEnd("server")
  /\ UNCHANGED <<cl, users>>

(* The client is gone while the handler waits for it. *)
ServerLost ==
  /\ sv.st \notin {"idle", "tunnel", "ended"} /\ "client" \in closed /\ c2s = <<>>
  /\ Refuse
  /\ UNCHANGED <<cl, c2s, s2c, users, verdicts>>

-----------------------------------------------------------------------------
(* What goes on around: payload through the open tunnel, further requests  *)
(* on a kept connection, a reload, an expired verdict, a dropped           *)
(* connection.                                                             *)

ClientData ==
  /\ cl.st = "open" /\ cl.cmd = "connect" /\ cl.data < MaxData
  /\ cl' = [cl EXCEPT !.data = @ + 1, !.st = IF cl.kind = "GET" THEN "reply" ELSE @]
  /\ c2s' = Append(c2s, IF cl.kind = "GET" THEN Field("GET", [to |-> RemoteAddress(cl.dst), login |-> NoLogin])
                        ELSE Field("data", cl.data + 1))
  /\ UNCHANGED <<sv, s2c, closed, users, verdicts>>
ServerData ==
  /\ sv.st = "tunnel" /\ sv.data < MaxData
  /\ sv' = [sv EXCEPT !.data = @ + 1]
  /\ s2c' = Append(s2c, Field("data", sv.data + 1))
  /\ UNCHANGED <<cl, c2s, closed, users, verdicts>>
SetAuthenticator(us) ==
  users' = us /\ UNCHANGED <<cl, sv, c2s, s2c, closed, verdicts>>
VerdictExpires(l) ==
  /\ l \in DOMAIN verdicts
  /\ verdicts' = [k \in DOMAIN verdicts \ {l} |-> verdicts[k]]
  /\ UNCHANGED <<cl, sv, c2s, s2c, closed, users>>
DropConn ==
  /\ cl.st # "idle" /\ sv.st # "tunnel"
  /\ c2s' = <<>> /\ s2c' = <<>> /\ closed' = {"client", "server"}
  /\ UNCHANGED <<cl, sv, users, verdicts>>

ClientStep == ClientMethod \/ ClientAuth \/ ClientReply \/ ClientLost
ServerStep == Peek \/ ServerMethod \/ ServerAuth \/ ServerRequest \/ ServerControl \/ Server4 \/ ServerHttp \/ ServerLost

HandshakeNext ==
  \/ \E k \in {"socks5", "socks4", "CONNECT", "GET"}, l \in Logins, m \in Targets,
       c \in {"connect", "udp", "bind"}, s \in {"socks", "mixed", "http", "open"} : ClientOpens(k, l, m, c, s)
  \/ ClientStep \/ ServerStep \/ ClientData \/ ServerData \/ DropConn
  \/ \E us \in UserSets : SetAuthenticator(us)
  \/ \E l \in Logins : VerdictExpires(l)

HandshakeFairness == WF_handshakeVars(ClientStep) /\ WF_handshakeVars(ServerStep)
HandshakeSpec == HandshakeInit /\ [][HandshakeNext]_handshakeVars /\ HandshakeFairness

-----------------------------------------------------------------------------
Names(m) == {TrimDot(m.h), m.ip} \ {""}
Sent(n)  == [i \in 1..n |-> Field("data", i)]

(* A flow handed to the tunnel is for a destination the client asked for,  *)
(* by connect, and neither side's handshake reading takes or leaves a byte *)
(* too many: what is left for the tunnel is exactly the client's payload,  *)
(* and (except after the HTTP client's buffered read) what is left for the *)
(* client is exactly the server's.                                         *)
TunnelAgrees ==
  /\ sv.to # <<>> => Names(sv.to[1]) # {} /\ Names(sv.to[1]) \subseteq Names(cl.dst) /\ cl.cmd = "connect"
  /\ sv.st = "tunnel" => c2s = Sent(cl.data)
  /\ sv.st = "tunnel" /\ cl.st = "open" /\ cl.kind # "CONNECT" => s2c = Sent(sv.data)

(* A listener that found an authenticator lets in only logins of some      *)
(* configuration, whatever the reloads and the cached verdicts of the HTTP *)
(* listener.                                                               *)
AdmittedIsKnown == sv.to # <<>> /\ sv.kind # "open" /\ sv.auth # {} => sv.login \in UNION UserSets

(* Neither end waits for the other for ever: an opened client gets its     *)
(* tunnel or fails, and when it fails the listener's handler ends too.     *)
HandshakesEnd ==
  /\ cl.st # "idle" ~> cl.st \in {"open", "failed"}
  /\ cl.st = "failed" ~> sv.st \in {"tunnel", "ended"}
=============================================================================
