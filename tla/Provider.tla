------------------------------ MODULE Provider ------------------------------
(* adapter/provider: a proxy set provider and its fetcher.  The content of *)
(* a remote is fetched by Initial, by pullLoop at every tick and by calls  *)
(* of the API; nothing keeps two fetches apart.  A fetch writes the file   *)
(* that Initial reads after a restart, then the hash that tells later      *)
(* fetches apart, then the proxies of the provider and of its health       *)
(* check.  A finalizer stops the loops of a provider nobody refers to.     *)
EXTENDS Naturals

CONSTANTS
  Contents,   \* what the remote may hold
  Bad,        \* contents that the parser refuses
  Apis,       \* goroutines of the API that call Update
  MaxCrashes, \* bound
  Torn,       \* what a write leaves that did not end, or that met another
  Nil

ASSUME ProviderAssumption ==
  /\ Bad \subseteq Contents /\ Torn \notin Contents /\ Nil \notin Contents
  /\ Torn # Nil /\ MaxCrashes \in Nat /\ {"initial", "pull"} \cap Apis = {}

(* Initial, pullLoop and the API.                                          *)
Fetchers == {"initial", "pull"} \cup Apis
Texts == Contents \cup {Torn}

VARIABLES
  vehicle,  \* HTTP or File; a File vehicle is read where it lies
  ticker,   \* whether there is an interval
  remote,   \* the content of the remote
  pc, buf,  \* of each fetcher
  hash,     \* f.hash, as the content it was computed from
  proxies,  \* pp.proxies
  checked,  \* healthCheck.proxies
  file,     \* at vehicle.Path()
  loop,     \* pullLoop: off, on
  held,     \* something refers to the provider
  kept,     \* a group whose goroutine never ends does
  done,     \* f.done holds a message
  overlap,  \* history: two fetches of this process were on at once
  crashes   \* the number of restarts so far

given == <<vehicle, ticker, kept>>
loaded == <<hash, proxies, checked>>
life == <<loop, held, done>>
vars == <<vehicle, ticker, remote, pc, buf, hash, proxies, checked, file, loop,
          held, kept, done, overlap, crashes>>

Init ==
  /\ vehicle \in {"HTTP", "File"} /\ ticker \in BOOLEAN /\ kept \in BOOLEAN
  /\ remote \in Contents
  /\ pc = [u \in Fetchers |-> IF u = "initial" THEN "start" ELSE "idle"]
  /\ buf = [u \in Fetchers |-> Nil]
  /\ hash = Nil /\ proxies = Nil /\ checked = Nil /\ file = Nil
  /\ loop = "off" /\ held = TRUE /\ done = FALSE
  /\ overlap = FALSE /\ crashes = 0

(* u goes on with the text c, or is through with it.                       *)
Goto(u, l, c) == pc' = [pc EXCEPT ![u] = l] /\ buf' = [buf EXCEPT ![u] = c]
Return(u) == Goto(u, "idle", Nil)

(* A torn text may be refused, or pass for a shorter list.                 *)
Parses(c) == c \notin Bad
Refused(c) == c \in Bad \cup {Torn}

Publish(c) ==
  /\ remote' = c
  /\ c # remote
  /\ UNCHANGED <<given, pc, buf, loaded, file, life, overlap, crashes>>

(***************************************************************************)
(* fetcher.Initial and fetcher.Update, up to safeWrite.                    *)
(***************************************************************************)
Local == IF vehicle = "File" THEN remote ELSE file

(* The file, if there is one and it parses, else the remote; a File        *)
(* vehicle reads the same file again.  With neither the program has no     *)
(* configuration, and is started again.                                    *)
Initial ==
  /\ pc["initial"] = "start"
  /\ \/ /\ Local # Nil /\ Parses(Local)
        /\ Goto("initial", "hash", Local)
     \/ /\ Local = Nil \/ Refused(Local)
        /\ Parses(remote)
        /\ Goto("initial", IF vehicle = "File" THEN "hash" ELSE "truncate", remote)
  /\ UNCHANGED <<given, remote, loaded, file, life, overlap, crashes>>

Active == {u \in Fetchers : pc[u] # "idle"}

(* vehicle.Read, at a tick or for a call of the API, which finds the       *)
(* provider only while the configuration is in use.  If it fails, nothing  *)
(* changes.                                                                *)
Update(u) ==
  /\ pc[u] = "idle"
  /\ \/ u = "pull" /\ loop = "on"
     \/ u \in Apis /\ held /\ pc["initial"] = "idle"
  /\ Goto(u, "compare", remote)
  /\ overlap' = (overlap \/ Active # {})
  /\ UNCHANGED <<given, remote, loaded, file, life, crashes>>

(* Fault: the hash is kept before the text is parsed. *)
CompareKeepsHash(u) ==
  /\ pc[u] = "compare"
  /\ IF buf[u] = hash \/ ~Parses(buf[u]) THEN Return(u)
     ELSE Goto(u, IF vehicle = "File" THEN "hash" ELSE "truncate", buf[u])
  /\ hash' = buf[u]
  /\ UNCHANGED <<given, remote, proxies, checked, file, life, overlap, crashes>>

(* Fault: pullLoop returns at the first error. *)
CompareGivesUp(u) ==
  /\ pc[u] = "compare"
  /\ IF buf[u] = hash \/ ~Parses(buf[u]) THEN Return(u)
     ELSE Goto(u, IF vehicle = "File" THEN "hash" ELSE "truncate", buf[u])
  /\ loop' = IF u = "pull" /\ ~Parses(buf[u]) THEN "off" ELSE loop
  /\ UNCHANGED <<given, remote, loaded, file, held, done, overlap, crashes>>

Compare(u) ==
  /\ pc[u] = "compare"
  /\ IF buf[u] = hash \/ ~Parses(buf[u]) THEN Return(u)
     ELSE Goto(u, IF vehicle = "File" THEN "hash" ELSE "truncate", buf[u])
  /\ UNCHANGED <<given, remote, loaded, file, life, overlap, crashes>>

(***************************************************************************)
(* safeWrite empties the file, then writes it.                             *)
(***************************************************************************)
Truncate(u) ==
  /\ pc[u] = "truncate"
  /\ file' = Torn
  /\ Goto(u, "write", buf[u])
  /\ UNCHANGED <<given, remote, loaded, life, overlap, crashes>>

(* Two writers may leave the tail of the longer text behind the other.     *)
Write(u) ==
  /\ pc[u] = "write"
  /\ \/ file' = buf[u]
     \/ file \in Contents /\ file # buf[u] /\ file' = Torn
  /\ Goto(u, "hash", buf[u])
  /\ UNCHANGED <<given, remote, loaded, life, overlap, crashes>>

(* A failed write ends the fetch with an error, which for Initial means    *)
(* that there is no configuration.                                         *)
WriteFails(u) ==
  /\ pc[u] \in {"truncate", "write"}
  /\ Goto(u, IF u = "initial" THEN "start" ELSE "idle", Nil)
  /\ UNCHANGED <<given, remote, loaded, file, life, overlap, crashes>>

(***************************************************************************)
(* The rest of both, and onUpdate.                                         *)
(***************************************************************************)
SetHash(u) ==
  /\ pc[u] = "hash"
  /\ hash' = buf[u]
  /\ loop' = IF u = "initial" /\ ticker THEN "on" ELSE loop
  /\ Goto(u, "proxies", buf[u])
  /\ UNCHANGED <<given, remote, proxies, checked, file, held, done, overlap, crashes>>

setProxies(u) ==
  /\ pc[u] = "proxies"
  /\ proxies' = buf[u]
  /\ Goto(u, "setProxy", buf[u])
  /\ UNCHANGED <<given, remote, hash, checked, file, life, overlap, crashes>>

setProxy(u) ==
  /\ pc[u] = "setProxy"
  /\ checked' = buf[u]
  /\ Return(u)
  /\ UNCHANGED <<given, remote, hash, proxies, file, life, overlap, crashes>>

(***************************************************************************)
(* The end of a provider, and of the process.                              *)
(***************************************************************************)
(* Another configuration takes the place of this one.                      *)
Drop ==
  /\ held /\ pc["initial"] = "idle"
  /\ held' = FALSE
  /\ UNCHANGED <<given, remote, pc, buf, loaded, file, loop, done, overlap, crashes>>

(* Fault: the finalizer stops the health check alone. *)
stopHealthCheck ==
  /\ ~held /\ ~kept /\ ~done
  /\ \A a \in Apis : pc[a] = "idle"
  /\ ticker /\ loop = "on"
  /\ UNCHANGED vars

(* The finalizer of the wrapper, once no call of the API and no group      *)
(* refers to it; pullLoop itself refers to the fetcher alone.              *)
stopProxyProvider ==
  /\ ~held /\ ~kept /\ ~done
  /\ \A a \in Apis : pc[a] = "idle"
  /\ ticker /\ loop = "on"
  /\ done' = TRUE
  /\ UNCHANGED <<given, remote, pc, buf, loaded, file, loop, held, overlap, crashes>>

(* pullLoop's select takes the message.                                    *)
StopLoop ==
  /\ loop = "on" /\ done /\ pc["pull"] = "idle"
  /\ loop' = "off" /\ done' = FALSE
  /\ UNCHANGED <<given, remote, pc, buf, loaded, file, held, overlap, crashes>>

Crash ==
  /\ crashes < MaxCrashes
  /\ crashes' = crashes + 1
  /\ pc' = [u \in Fetchers |-> IF u = "initial" THEN "start" ELSE "idle"]
  /\ buf' = [u \in Fetchers |-> Nil]
  /\ hash' = Nil /\ proxies' = Nil /\ checked' = Nil
  /\ loop' = "off" /\ held' = TRUE /\ done' = FALSE /\ overlap' = FALSE
  /\ UNCHANGED <<given, remote, file>>

Step(u) ==
  \/ Compare(u) \/ Truncate(u) \/ Write(u) \/ WriteFails(u)
  \/ SetHash(u) \/ setProxies(u) \/ setProxy(u)

Next ==
  \/ \E c \in Contents : Publish(c)
  \/ Initial
  \/ \E u \in Fetchers : Update(u) \/ Step(u)
  \/ Drop \/ stopProxyProvider \/ StopLoop \/ Crash

(* Goroutines run and ticks come; the garbage collector finds what nothing *)
(* refers to, and a select that can take the message takes it in the end.  *)
(* An assumption on the disk, which the code cannot give: of the attempts  *)
(* of Initial and pullLoop to open the file, and of those to write it, not *)
(* all fail for ever.                                                      *)
Fairness ==
  /\ WF_vars(Initial) /\ WF_vars(Update("pull"))
  /\ \A u \in Fetchers : WF_vars(Step(u))
  /\ \A u \in {"initial", "pull"} : SF_vars(Truncate(u)) /\ SF_vars(Write(u))
  /\ WF_vars(stopProxyProvider) /\ SF_vars(StopLoop)

Spec == Init /\ [][Next]_vars /\ Fairness

(***************************************************************************)
(* Properties.                                                             *)
(***************************************************************************)
(* Unless two fetches of this process were on at once, the hash, the       *)
(* proxies in use and those under health check come from one text, one     *)
(* that the parser took, whenever no fetch is on; and the file of an HTTP  *)
(* vehicle is that text or torn, never another list: what failed after     *)
(* the comparison is fetched again, and a restart comes back to the same   *)
(* proxies or to the remote (Update, Initial, onUpdate).                   *)
OneContent ==
  Active = {} /\ ~overlap =>
    /\ hash = proxies /\ proxies = checked /\ hash \in Texts \ Bad
    /\ vehicle = "HTTP" => file \in {hash, Torn}

(* With an interval, a provider in use comes to have what the remote keeps *)
(* offering, whatever was torn, refused or lost before, if fetches do not  *)
(* overlap (pullLoop).                                                     *)
Converges ==
  \A c \in Contents \ Bad :
    <>[](remote = c /\ ticker /\ held /\ ~overlap)
      => <>[](hash = c /\ proxies = c /\ checked = c)

(* The loop of a provider that nothing refers to ends (the finalizer, "for *)
(* auto gc"), unless a url-test group, whose own goroutine never ends,     *)
(* had it.                                                                 *)
LoopEnds == ~held /\ ~kept ~> loop = "off"
=============================================================================
