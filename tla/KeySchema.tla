----------------------------- MODULE KeySchema -----------------------------
(***************************************************************************)
(* ContractKeySchema::validate (services/api/src/config.rs), which runs    *)
(* once when the API starts: every template is checked for what it must    *)
(* contain, and a depth-first search in three colours looks for templates  *)
(* that refer to each other in a circle.  BlockchainClient::new only logs  *)
(* what it finds.                                                          *)
(*                                                                         *)
(* Of a template it matters whether it is flawed (empty, or without the    *)
(* {id} it needs) and which fields it refers to.  A frame of the recursion *)
(* dfs is a node of the path with those of its references looked at.       *)
(***************************************************************************)
EXTENDS Naturals, Sequences, FiniteSetsExt, Functions, SequencesExt

CONSTANT Fields    \* FIELDS, in the order of the code

VARIABLES
  deps,    \* the fields each template refers to
  flaws,   \* the fields whose template is flawed
  errors,  \* the problems found so far
  color,   \* 0 new, 1 on the path, 2 done
  path,    \* the fields being visited
  done,    \* the references of each field on the path that were looked at
  cycle,   \* the circle found, or <<>>
  state    \* "templates", "search", "validated"

vars == <<deps, flaws, errors, color, path, done, cycle, state>>

Names == ToSet(Fields)
KeySchemaAssumption == Fields \in Seq(Names) /\ IsInjective(Fields)

(* from_env: whatever the environment holds *)
Init ==
  /\ deps \in [Names -> SUBSET Names]
  /\ flaws \in SUBSET Names
  /\ errors = {} /\ color = [f \in Names |-> 0]
  /\ path = <<>> /\ done = [f \in Names |-> {}]
  /\ cycle = <<>> /\ state = "templates"

(* Fields, and the references of a field, are taken in the order of FIELDS. *)
First(S) == Fields[Min({i \in DOMAIN Fields : Fields[i] \in S})]

CheckTemplates ==
  /\ state = "templates" /\ state' = "search"
  /\ errors' = flaws
  /\ UNCHANGED <<deps, flaws, color, path, done, cycle>>

Current == Last(path)
Neighbors == deps[Current] \ done[Current]
Neighbor == First(Neighbors)
MoreNeighbors == path # <<>> /\ Neighbors # {}

NewFields == {f \in Names : color[f] = 0}

(* detect_cycle starts at the next field that is still new. *)
StartAt(f) ==
  /\ state = "search" /\ cycle = <<>> /\ path = <<>>
  /\ NewFields # {} /\ f = First(NewFields)
  /\ color' = [color EXCEPT ![f] = 1]
  /\ path' = <<f>> /\ done' = [done EXCEPT ![f] = {}]
  /\ UNCHANGED <<deps, flaws, errors, cycle, state>>

(* A field on the path closes a circle, and every call of dfs returns it.  *)
CloseCycle ==
  /\ state = "search" /\ cycle = <<>> /\ MoreNeighbors /\ color[Neighbor] = 1
  /\ cycle' = Append(SubSeq(path, CHOOSE i \in DOMAIN path : path[i] = Neighbor, Len(path)), Neighbor)
  /\ UNCHANGED <<deps, flaws, errors, color, path, done, state>>

(* Any other is visited, a finished one again. *)
Descend ==
  /\ state = "search" /\ cycle = <<>> /\ MoreNeighbors /\ color[Neighbor] # 1
  /\ color' = [color EXCEPT ![Neighbor] = 1]
  /\ path' = Append(path, Neighbor)
  /\ done' = [done EXCEPT ![Current] = @ \cup {Neighbor}, ![Neighbor] = {}]
  /\ UNCHANGED <<deps, flaws, errors, cycle, state>>

(* Deviation: the field stays on the path. *)
Leave_KeepsPath == UNCHANGED path

Leave == path' = Front(path)

Return ==
  /\ state = "search" /\ cycle = <<>> /\ path # <<>> /\ ~MoreNeighbors
  /\ Leave
  /\ color' = [color EXCEPT ![Current] = 2]
  /\ UNCHANGED <<deps, flaws, errors, done, cycle, state>>

Finish ==
  /\ state = "search"
  /\ cycle # <<>> \/ (path = <<>> /\ NewFields = {})
  /\ errors' = IF cycle = <<>> THEN errors ELSE errors \cup {"cycle"}
  /\ state' = "validated"
  /\ UNCHANGED <<deps, flaws, color, path, done, cycle>>

Next ==
  \/ CheckTemplates \/ CloseCycle \/ Descend \/ Return \/ Finish
  \/ \E f \in Names : StartAt(f)

Spec == Init /\ [][Next]_vars

(* The code runs on to its end. *)
FairSpec == Spec /\ WF_vars(Next)
-----------------------------------------------------------------------------
(* There is a circle if some fields each refer to one of them. *)
Circular == \E S \in SUBSET Names : S # {} /\ \A f \in S : deps[f] \cap S # {}

IsCycle(s) ==
  /\ Len(s) > 1 /\ s[1] = s[Len(s)]
  /\ \A i \in 1..(Len(s) - 1) : s[i + 1] \in deps[s[i]]

(* Exactly the problems there are: the flawed templates, a circle if and   *)
(* only if a field refers to itself through others, and as that circle     *)
(* fields that do refer to each other.                                     *)
Verdict ==
  /\ errors = flaws \cup (IF Circular THEN {"cycle"} ELSE {})
  /\ cycle = <<>> \/ IsCycle(cycle)

(* validate ends, whatever refers to whatever, and what it has found is    *)
(* right.                                                                  *)
SchemaJudged == <>(state = "validated" /\ Verdict)
=============================================================================
