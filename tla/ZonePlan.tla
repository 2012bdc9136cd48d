------------------------------- MODULE ZonePlan -------------------------------
(***************************************************************************)
(* The reconciliation plan of `mailadmin dns publish`: how the live        *)
(* records of a zone are paired with the desired mail record-set           *)
(* (internal/dnsprovider/provider.go).                                     *)
(*                                                                         *)
(* A value stands for everything of a Record but its provider id and TTL:  *)
(* type, owner name, content as spelled at the provider, priority, weight  *)
(* and port.  What the code computes from these strings is given by two    *)
(* functions on values:                                                    *)
(*   SlotOf    the slot a record occupies (Record.identity: type and name, *)
(*             and for TXT the policy scheme), and                         *)
(*   ClassOf   its content up to what sameContent ignores (letter case,    *)
(*             surrounding blanks, a host target's trailing dot, the TTL). *)
(* The order in which a provider lists its records decides which of        *)
(* several equally good live records the code picks.  A provider promises  *)
(* no order, so a plan here is any pairing some order of the list yields.  *)
(***************************************************************************)
EXTENDS Naturals

CONSTANTS
    Value,      \* the record values that can occur in the zone
    SlotOf,     \* SlotOf[v]: the slot of value v
    ClassOf,    \* ClassOf[v]: the content class of value v
    Desired     \* the values DesiredMailRecords asks for

(***************************************************************************)
(* identity() lower-cases names and contents, so values sameContent cannot *)
(* tell apart share their slot; DesiredMailRecords asks for no value twice.*)
(***************************************************************************)
ASSUME ZoneAssumption ==
    /\ Desired \subseteq Value
    /\ \A v, w \in Value : ClassOf[v] = ClassOf[w] => SlotOf[v] = SlotOf[w]
    /\ \A d, e \in Desired : ClassOf[d] = ClassOf[e] => d = e

-----------------------------------------------------------------------------

(* The slots the desired set names: the only ones a publish may change.    *)
Managed == {SlotOf[d] : d \in Desired}

SameContent(v, w) == ClassOf[v] = ClassOf[w]

(* Live records are [id, val]; a slot may hold several.                    *)
InSlot(live, s) == {r \in live : SlotOf[r.val] = s}
ManagedPart(live) == {r \in live : SlotOf[r.val] \in Managed}
ForeignPart(live) == live \ ManagedPart(live)

(***************************************************************************)
(* Slot by slot, the live record each desired value ends up in.            *)
(* A value whose content is already live keeps a record of that content;   *)
(* the others take over leftover records of their slot, and only when none *)
(* is left does a value go without (it will be added).                     *)
(***************************************************************************)
IsPlacement(live, c) ==
    /\ \A d, e \in DOMAIN c : c[d] = c[e] => d = e
    /\ \A d \in DOMAIN c : SlotOf[c[d].val] = SlotOf[d]
    /\ \A d \in Desired : \A r \in live :
          SameContent(r.val, d) => d \in DOMAIN c /\ SameContent(c[d].val, d)
    /\ \A d \in Desired \ DOMAIN c : \A r \in InSlot(live, SlotOf[d]) :
          \E e \in DOMAIN c : c[e] = r

Placements(live) ==
    UNION {{c \in [D -> ManagedPart(live)] : IsPlacement(live, c)} :
              D \in SUBSET Desired}

(* Bugs ChangesOf might have: the deletes are taken from the whole zone;   *)
(* an edited record is not marked used; leftovers stay; contents are       *)
(* compared letter by letter.                                              *)
DeletesForeign(live, c) ==
    [add  |-> Desired \ DOMAIN c,
     edit |-> {[cur |-> c[d], to |-> d] :
                 d \in {e \in DOMAIN c : ~SameContent(c[e].val, e)}},
     del  |-> {r \in live : \A d \in DOMAIN c : c[d] # r}]

DeletesEdited(live, c) ==
    [add  |-> Desired \ DOMAIN c,
     edit |-> {[cur |-> c[d], to |-> d] :
                 d \in {e \in DOMAIN c : ~SameContent(c[e].val, e)}},
     del  |-> {r \in ManagedPart(live) : \A d \in DOMAIN c :
                 c[d] = r => ~SameContent(r.val, d)}]

DeletesNothing(live, c) ==
    [add  |-> Desired \ DOMAIN c,
     edit |-> {[cur |-> c[d], to |-> d] :
                 d \in {e \in DOMAIN c : ~SameContent(c[e].val, e)}},
     del  |-> {}]

EditsRespelt(live, c) ==
    [add  |-> Desired \ DOMAIN c,
     edit |-> {[cur |-> c[d], to |-> d] : d \in {e \in DOMAIN c : c[e].val # e}},
     del  |-> {r \in ManagedPart(live) : \A d \in DOMAIN c : c[d] # r}]

(* The mutating changes of a placement: OpAdd, OpEdit, OpDelete.           *)
ChangesOf(live, c) ==
    [add  |-> Desired \ DOMAIN c,
     edit |-> {[cur |-> c[d], to |-> d] :
                 d \in {e \in DOMAIN c : ~SameContent(c[e].val, e)}},
     del  |-> {r \in ManagedPart(live) : \A d \in DOMAIN c : c[d] # r}]

Plans(live) == {ChangesOf(live, c) : c \in Placements(live)}

NothingToDo == [add |-> {}, edit |-> {}, del |-> {}]

(* Every managed slot holds each desired value once and nothing else.      *)
Exact(live) ==
    /\ \A d \in Desired : \E r \in live : SameContent(r.val, d)
    /\ \A r \in ManagedPart(live) : \E d \in Desired : SameContent(r.val, d)
    /\ \A r, q \in ManagedPart(live) : SameContent(r.val, q.val) => r = q

=============================================================================
