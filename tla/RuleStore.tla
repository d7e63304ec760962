----------------------------- MODULE RuleStore -----------------------------
(***************************************************************************)
(* The writers of the rule list: the rule API (POST /hashmaps, handler     *)
(* updateHashMap), the reload of a configuration (ApplyConfig ->           *)
(* updateRules -> LoadRule -> LoadStrRule -> UpdateRules) and the rule     *)
(* database both of them use (tunnel/rulesSaveDB.go).  None of them holds  *)
(* a lock from reading the list to replacing it, and LoadStrRule builds    *)
(* its result in the package variable rules itself.                        *)
(*                                                                         *)
(* A rule is a model value with a payload and a database key (rule type    *)
(* followed by payload).  A database entry is the text of a rule, a text   *)
(* that does not split into three fields, or one that ParseRule refuses.   *)
(* The text the API stores is split at commas and trimmed when it is read  *)
(* back: StoredAs gives the rule it then is, which differs from the one    *)
(* asked for when that had blanks or a comma in its payload.               *)
(***************************************************************************)
EXTENDS Integers, Sequences

CONSTANTS
  Rules,      \* the rules that can be asked for or stored
  DbKeys,     \* keys of the bucket map-string-rule
  KeyOrder,   \* DbKeys in the order GetAll returns them
  KeyOf,      \* rule -> RuleType().String() + Payload()
  PayloadOf,  \* rule -> Payload()
  StoredAs,   \* what a rule is when its stored text is read back
  Configs,    \* rule lists of the configurations that can be applied
  InitialDb,  \* contents the database may have when the process starts
  Clients,    \* goroutines of the API server
  MaxRules,   \* bound: the API copies a list only up to this length
  BadLength, BadParse, Absent

Values == Rules \cup {BadLength, BadParse, Absent}

ASSUME StoreAssumption ==
  /\ KeyOf \in [Rules -> DbKeys]
  /\ Rules \cap {BadLength, BadParse, Absent} = {}
  /\ StoredAs \in [Rules -> Rules \cup {BadLength}]
  /\ Configs \subseteq Seq(Rules)
  /\ InitialDb \subseteq [DbKeys -> Values]
  /\ KeyOrder \in Seq(DbKeys)
  /\ \A k \in DbKeys : \E i \in DOMAIN KeyOrder : KeyOrder[i] = k

VARIABLES
  rules,       \* tunnel.rules
  db,          \* the bucket: key -> value
  api,         \* where each API goroutine is in updateHashMap
  asked,       \* the rule it was asked to add or to delete
  scan, kept,  \* its loop over tunnel.Rules(): what is left, the new list
  load,        \* where the reload is
  todo,        \* LoadStrRule: the keys its loop has not seen
  needReSetKey,\* LoadStrRule: key -> rule to store again
  deleteKey,   \* LoadStrRule: the keys to delete
  cfg, list,   \* LoadRule: the rules of the configuration, the new list
  repaired     \* history: a reload has been through its repair

apiVars == <<api, asked, scan, kept>>
loadVars == <<load, todo, needReSetKey, deleteKey, cfg, list, repaired>>
storeVars == <<rules, db, apiVars, loadVars>>

Init ==
  /\ rules = <<>>
  /\ db \in InitialDb
  /\ api = [a \in Clients |-> "idle"]
  /\ asked = [a \in Clients |-> Absent]
  /\ scan = [a \in Clients |-> <<>>]
  /\ kept = [a \in Clients |-> <<>>]
  /\ load = "idle"
  /\ todo = <<>> /\ deleteKey = <<>> /\ cfg = <<>> /\ list = <<>>
  /\ needReSetKey = [k \in DbKeys |-> Absent]
  /\ repaired = FALSE

-----------------------------------------------------------------------------
(* rules = newRules under configMux; the cache is purged in RuleCache. *)
UpdateRules(new) == rules' = new

(* nutsdb runs a View and an Update one after the other. *)
NoView == load # "scan"

AddStrRule(k, v) == NoView /\ db' = [db EXCEPT ![k] = v]
DeleteStrRule(k) == NoView /\ db' = [db EXCEPT ![k] = Absent]

(* updateHashMap, adding: append([]C.Rule{newRule}, tunnel.Rules()...) *)
AddRead(a, r) ==
  /\ api[a] = "idle"
  /\ Len(rules) <= MaxRules
  /\ api' = [api EXCEPT ![a] = "add"]
  /\ asked' = [asked EXCEPT ![a] = r]
  /\ kept' = [kept EXCEPT ![a] = <<r>> \o rules]
  /\ UNCHANGED <<rules, db, scan, loadVars>>

(* updateHashMap, deleting: for _, rule := range tunnel.Rules() ... *)
DelRead(a, r) ==
  /\ api[a] = "idle"
  /\ Len(rules) <= MaxRules
  /\ api' = [api EXCEPT ![a] = "del"]
  /\ asked' = [asked EXCEPT ![a] = r]
  /\ scan' = [scan EXCEPT ![a] = rules]
  /\ kept' = [kept EXCEPT ![a] = <<>>]
  /\ UNCHANGED <<rules, db, loadVars>>

(* ... a rule of another payload is kept; one of the same payload, of any  *)
(* type, is dropped and CloseRuleMatchCon closes its connections.          *)
DelScan(a) ==
  /\ api[a] = "del" /\ scan[a] # <<>>
  /\ scan' = [scan EXCEPT ![a] = Tail(@)]
  /\ kept' = IF PayloadOf[Head(scan[a])] # PayloadOf[asked[a]]
             THEN [kept EXCEPT ![a] = Append(@, Head(scan[a]))] ELSE kept
  /\ UNCHANGED <<rules, db, api, asked, loadVars>>

ApiUpdate(a) ==
  /\ api[a] = "add" \/ (api[a] = "del" /\ scan[a] = <<>>)
  /\ UpdateRules(kept[a])
  /\ api' = [api EXCEPT ![a] = IF @ = "add" THEN "addsave" ELSE "delsave"]
  /\ UNCHANGED <<db, asked, scan, kept, loadVars>>

ApiDone(a) ==
  /\ api' = [api EXCEPT ![a] = "idle"]
  /\ asked' = [asked EXCEPT ![a] = Absent]
  /\ kept' = [kept EXCEPT ![a] = <<>>]
  /\ UNCHANGED <<rules, scan, loadVars>>

(* Fault: the entry is stored under a key that does not follow the rule. *)
ApiSaveWrongKey(a) ==
  /\ api[a] \in {"addsave", "delsave"}
  /\ \E k \in DbKeys : AddStrRule(k, StoredAs[asked[a]])
  /\ ApiDone(a)

(* AddStrRule(db_key, ...) or DeleteStrRule(db_key) *)
ApiSave(a) ==
  /\ \/ /\ api[a] = "addsave"
        /\ AddStrRule(KeyOf[asked[a]], StoredAs[asked[a]])
     \/ /\ api[a] = "delsave"
        /\ DeleteStrRule(KeyOf[asked[a]])
  /\ ApiDone(a)

-----------------------------------------------------------------------------
(* The reload.  ApplyConfig holds executor.mux: one at a time.             *)

(* rules = []C.Rule{} *)
LoadTruncate(c) ==
  /\ load = "idle"
  /\ rules' = <<>>
  /\ load' = "open"
  /\ cfg' = c
  /\ UNCHANGED <<db, apiVars, todo, needReSetKey, deleteKey, list, repaired>>

(* RuleDB.View, GetAll; a key without an entry is passed over by the loop. *)
LoadView ==
  /\ load = "open"
  /\ load' = "scan"
  /\ todo' = KeyOrder
  /\ UNCHANGED <<rules, db, apiVars, needReSetKey, deleteKey, cfg, list, repaired>>

(* One round of the loop: a text without three fields marks its key for    *)
(* deletion, one that does not parse is skipped, a rule under a wrong key  *)
(* marks the key and asks for a new entry; rules are appended to the       *)
(* package variable.                                                       *)
ScanEntry ==
  /\ load = "scan" /\ todo # <<>>
  /\ todo' = Tail(todo)
  /\ LET k == Head(todo)
         wrong == db[k] \in Rules /\ KeyOf[db[k]] # k
     IN  /\ rules' = IF db[k] \in Rules THEN Append(rules, db[k]) ELSE rules
         /\ deleteKey' = IF db[k] = BadLength \/ wrong
                         THEN Append(deleteKey, k) ELSE deleteKey
         /\ needReSetKey' = IF wrong
                            THEN [needReSetKey EXCEPT ![KeyOf[db[k]]] = db[k]]
                            ELSE needReSetKey
  /\ UNCHANGED <<db, apiVars, load, cfg, list, repaired>>

ScanEnd ==
  /\ load = "scan" /\ todo = <<>>
  /\ load' = "reset"
  /\ UNCHANGED <<rules, db, apiVars, todo, needReSetKey, deleteKey, cfg, list,
                 repaired>>

(* for key, value := range needReSetKey { AddStrRule } in map order *)
RepairAdd(k) ==
  /\ load = "reset" /\ needReSetKey[k] # Absent
  /\ AddStrRule(k, needReSetKey[k])
  /\ needReSetKey' = [needReSetKey EXCEPT ![k] = Absent]
  /\ UNCHANGED <<rules, apiVars, load, todo, deleteKey, cfg, list, repaired>>

RepairAddEnd ==
  /\ load = "reset" /\ \A k \in DbKeys : needReSetKey[k] = Absent
  /\ load' = "delete"
  /\ UNCHANGED <<rules, db, apiVars, todo, needReSetKey, deleteKey, cfg, list,
                 repaired>>

(* for _, key := range deleteKey { DeleteStrRule } *)
RepairDelete ==
  /\ load = "delete" /\ deleteKey # <<>>
  /\ DeleteStrRule(Head(deleteKey))
  /\ deleteKey' = Tail(deleteKey)
  /\ UNCHANGED <<rules, apiVars, load, todo, needReSetKey, cfg, list, repaired>>

(* LoadStrRule returns the package variable; LoadRule copies it. *)
LoadReturn ==
  /\ load = "delete" /\ deleteKey = <<>>
  /\ load' = "update"
  /\ list' = rules \o cfg
  /\ repaired' = TRUE
  /\ UNCHANGED <<rules, db, apiVars, todo, needReSetKey, deleteKey, cfg>>

LoadUpdate ==
  /\ load = "update"
  /\ UpdateRules(list)
  /\ load' = "idle"
  /\ cfg' = <<>> /\ list' = <<>>
  /\ UNCHANGED <<db, apiVars, todo, needReSetKey, deleteKey, repaired>>

-----------------------------------------------------------------------------
(* The steps that call tunnel.UpdateRules, and the others. *)
Replaces == (\E a \in Clients : ApiUpdate(a)) \/ LoadUpdate

Keeps ==
  \/ \E a \in Clients, r \in Rules : AddRead(a, r) \/ DelRead(a, r)
  \/ \E a \in Clients : DelScan(a) \/ ApiSave(a)
  \/ \E c \in Configs : LoadTruncate(c)
  \/ LoadView \/ ScanEntry \/ ScanEnd
  \/ \E k \in DbKeys : RepairAdd(k)
  \/ RepairAddEnd \/ RepairDelete \/ LoadReturn

Next == Replaces \/ Keeps

Spec == Init /\ [][Next]_storeVars

-----------------------------------------------------------------------------
(* Every variable has a value of its declaration. *)
TypeOK ==
  /\ rules \in Seq(Rules)
  /\ db \in [DbKeys -> Values]
  /\ api \in [Clients -> {"idle", "add", "del", "addsave", "delsave"}]
  /\ asked \in [Clients -> Rules \cup {Absent}]
  /\ \A a \in Clients : api[a] # "idle" => asked[a] \in Rules
  /\ scan \in [Clients -> Seq(Rules)]
  /\ kept \in [Clients -> Seq(Rules)]
  /\ load \in {"idle", "open", "scan", "reset", "delete", "update"}
  /\ todo \in Seq(DbKeys)
  /\ needReSetKey \in [DbKeys -> Rules \cup {Absent}]
  /\ deleteKey \in Seq(DbKeys)
  /\ cfg \in Seq(Rules)
  /\ list \in Seq(Rules)
  /\ repaired \in BOOLEAN

(* The entry at k is a rule under its own key, or one the API writes.      *)
WrittenByApi(k) == \E r \in Rules : KeyOf[r] = k /\ StoredAs[r] = db[k]
Canonical(k) == db[k] \in Rules => KeyOf[db[k]] = k \/ WrittenByApi(k)

(* LoadStrRule: "always use rule.RuleType().String()+rule.Payload() as the *)
(* key".  Once a load has repaired the database, whatever wrong keys it    *)
(* held before, every stored rule is under its own key or under the one    *)
(* the API gives it, whatever the API writes meanwhile and afterwards.     *)
RepairedCanonical == repaired => \A k \in DbKeys : Canonical(k)

(* LoadStrRule: a wrong key is repaired and the rule "stored in the        *)
(* database again".  When the repair is over, every rule that the load     *)
(* found has an entry under its own key.                                   *)
RepairKeepsRules ==
  load = "update" => \A i \in DOMAIN rules : db[KeyOf[rules[i]]] \in Rules

Listed(k, s) == \E i \in DOMAIN s : s[i] = k

(* While LoadStrRule repairs, the keys that are still wrong are the ones   *)
(* it has yet to look at or to delete, and what it stores again is under   *)
(* its own key, whatever the API writes at the same time.                  *)
RepairPending ==
  /\ load \in {"scan", "reset", "delete"} =>
       \A k \in DbKeys : Canonical(k) \/ Listed(k, todo) \/ Listed(k, deleteKey)
  /\ load \in {"reset", "delete", "update"} => todo = <<>>
  /\ load = "update" => repaired
  /\ \A k \in DbKeys : needReSetKey[k] # Absent => KeyOf[needReSetKey[k]] = k
============================================================================
