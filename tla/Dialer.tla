------------------------------- MODULE Dialer --------------------------------
(* dialer.DialContext: over one family, or over both with the first        *)
(* connection winning.  Each racer resolves the host, dials, and hands its *)
(* result over the unbuffered channel unless the caller has returned, when *)
(* it closes what it has.                                                  *)
EXTENDS FiniteSets

CONSTANT Families  \* the racers, "v4" the primary

VARIABLES
  race,      \* families that take part: one for tcp4 and tcp6, both for tcp
  racer,     \* family -> "resolve", "dial", "deliver", "end"
  result,    \* family -> [conn, error, resolved]
  heard,     \* results the caller has received
  returned,  \* "no", "error" with the family whose error it is, or the family of the connection
  opened     \* connections open

dialVars == <<race, racer, result, heard, returned, opened>>

NoResult == [conn |-> FALSE, error |-> FALSE, resolved |-> FALSE]

DialInit ==
  /\ race \in {{"v4"}, {"v6"}, Families}
  /\ racer = [f \in Families |-> IF f \in race THEN "resolve" ELSE "end"]
  /\ result = [f \in Families |-> NoResult]
  /\ heard = {} /\ returned = <<"no">> /\ opened = {}

(* resolver.ResolveIPv4, ResolveIPv6. *)
Resolve(f, ok) ==
  /\ racer[f] = "resolve"
  /\ racer' = [racer EXCEPT ![f] = IF ok THEN "dial" ELSE "deliver"]
  /\ result' = [result EXCEPT ![f].resolved = ok, ![f].error = ~ok]
  /\ UNCHANGED <<race, heard, returned, opened>>
(* dialContext: the system's dial, at most five seconds long. *)
dialContext(f, ok) ==
  /\ racer[f] = "dial"
  /\ racer' = [racer EXCEPT ![f] = "deliver"]
  /\ result' = [result EXCEPT ![f].conn = ok, ![f].error = ~ok]
  /\ opened' = IF ok THEN opened \cup {f} ELSE opened
  /\ UNCHANGED <<race, heard, returned>>

(* What the caller says once every result is an error. *)
Complaint ==
  IF result["v4"].resolved \/ ~result["v6"].resolved THEN <<"error", "v4">> ELSE <<"error", "v6">>
(* results <- result, the caller being in its loop. *)
Deliver(f) ==
  /\ racer[f] = "deliver" /\ returned = <<"no">>
  /\ racer' = [racer EXCEPT ![f] = "end"]
  /\ heard' = heard \cup {f}
  /\ returned' = IF ~result[f].error THEN <<"conn", f>>
                 ELSE IF race = Families /\ heard' # Families THEN returned
                 ELSE IF race = Families THEN Complaint ELSE <<"error", f>>
  /\ UNCHANGED <<race, result, opened>>
(* Fault: the loser leaves its connection open. *)
LateKeeps(f) ==
  /\ racer[f] = "deliver" /\ returned # <<"no">>
  /\ racer' = [racer EXCEPT ![f] = "end"]
  /\ UNCHANGED <<race, result, heard, returned, opened>>
(* <-returned: the loser closes its connection. *)
Late(f) ==
  /\ racer[f] = "deliver" /\ returned # <<"no">>
  /\ racer' = [racer EXCEPT ![f] = "end"]
  /\ opened' = opened \ {f}
  /\ UNCHANGED <<race, result, heard, returned>>

RacerStep(f) == (\E ok \in BOOLEAN : Resolve(f, ok) \/ dialContext(f, ok)) \/ Deliver(f) \/ Late(f)
DialNext == \E f \in Families : RacerStep(f)
(* Resolving and dialling end by their timeouts. *)
DialFairness == \A f \in Families : WF_dialVars(RacerStep(f))
DialSpec == DialInit /\ [][DialNext]_dialVars /\ DialFairness

-----------------------------------------------------------------------------
(* A dial comes to an end with every racer gone; the caller then holds the *)
(* only connection left open, and fails only if no racer got one and, when *)
(* some family resolved, with the error of a family that did.              *)
RaceEndsClean ==
  <>[](\/ race = {}
       \/ /\ \A f \in race : racer[f] = "end"
          /\ \/ \E f \in race : returned = <<"conn", f>> /\ opened = {f}
             \/ \E f \in race :
                  /\ returned = <<"error", f>> /\ opened = {}
                  /\ \A g \in race : result[g].error
                  /\ (\E g \in race : result[g].resolved) => result[f].resolved)
=============================================================================
