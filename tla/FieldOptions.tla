---------------------------- MODULE FieldOptions ----------------------------
(***************************************************************************)
(* pipedrive.deal_fields.add_option (tools/deal_fields.go): the read,      *)
(* merge and write of a deal field's options, by several calls at a time.  *)
(* The upstream's PUT replaces the whole array: options sent with their id *)
(* stay, options sent with a label only get a new id, the others go.       *)
(***************************************************************************)
EXTENDS Naturals, Sequences, SequencesExt

CONSTANTS
    Callers, \* slots for calls that are served at the same time
    Labels,  \* option labels, none of them blank
    OtherItems, \* elements of an options array that are not objects
    MaxArgs, \* bound on the labels of one call
    MaxId    \* bound on the ids that the upstream gives

Options == [id : Nat, label : Labels]

ASSUME FieldOptionsAssumption ==
    /\ MaxArgs \in Nat /\ MaxId \in Nat
    /\ OtherItems \intersect Options = {}

VARIABLES
    hasOptions, \* whether the field's type is enum or set
    options,    \* the upstream's options, each an id and a label, or another item
    nextId,     \* the next id that the upstream gives
    calls,      \* the calls in progress
    confirmed   \* history: the labels that calls have added or found there,
                \* without those lost to an overlap

vars == <<hasOptions, options, nextId, calls, confirmed>>

Idle == [pc |-> "idle"]

(* The arguments: at least one label, perhaps the same one twice. *)
Arguments == UNION {[1 .. n -> Labels] : n \in 1 .. MaxArgs}

LabelsOf(opts) == {o.label : o \in opts \ OtherItems}

Init ==
    /\ hasOptions \in BOOLEAN
    /\ \E l \in Labels, others \in SUBSET OtherItems :
          options \in {others, others \union {[id |-> 1, label |-> l]}}
    /\ nextId = 2
    /\ calls = [c \in Callers |-> Idle]
    /\ confirmed = {}

----------------------------------------------------------------------------
(* Mutated Added: the labels just added are not remembered. *)
AddedForgetful(args, seen) == SelectSeq(args, LAMBDA l : l \notin LabelsOf(seen))

(* The labels that the merge adds: known ones, and repeated ones, are      *)
(* skipped.                                                                *)
Added(args, seen) ==
    FoldLeft(LAMBDA acc, l : IF l \in LabelsOf(seen) \union ToSet(acc) THEN acc ELSE Append(acc, l),
             << >>, args)

(* Mutated Resent: only what is new goes into the PUT. *)
ResentNothing(seen) == {}

(* Mutated Resent: the merged array holds the labels without ids. *)
ResentAsLabels(seen) == {[label |-> o.label] : o \in seen \ OtherItems}

(* The existing options go into the PUT with the id they were read with,   *)
(* apart from items that are not objects, which are left out.              *)
Resent(seen) == seen \ OtherItems

Call(c, args) ==
    /\ calls[c].pc = "idle"
    /\ calls' = [calls EXCEPT ![c] = [pc |-> "get", args |-> args]]
    /\ UNCHANGED <<hasOptions, options, nextId, confirmed>>

(* The upstream answers the GET, which does not go through the cache.  The *)
(* call goes on with options to add, to a field that can have some; ...    *)
ReadField(c) ==
    /\ calls[c].pc = "get"
    /\ hasOptions
    /\ Added(calls[c].args, options) # << >>
    /\ calls' = [calls EXCEPT ![c] =
                   [pc |-> "put", args |-> calls[c].args, seen |-> options, missed |-> {}]]
    /\ UNCHANGED <<hasOptions, options, nextId, confirmed>>

(* ... it returns with its labels skipped if they are all there, ... *)
SkipAll(c) ==
    /\ calls[c].pc = "get"
    /\ hasOptions
    /\ Added(calls[c].args, options) = << >>
    /\ calls' = [calls EXCEPT ![c] = Idle]
    /\ confirmed' = confirmed \union ToSet(calls[c].args)
    /\ UNCHANGED <<hasOptions, options, nextId>>

(* ... and with an error from any other field. *)
Refuse(c) ==
    /\ calls[c].pc = "get"
    /\ ~hasOptions
    /\ calls' = [calls EXCEPT ![c] = Idle]
    /\ UNCHANGED <<hasOptions, options, nextId, confirmed>>

(* The upstream carries out the PUT of the merged array.  The history      *)
(* field "missed" of the other calls takes the labels that are upstream     *)
(* now and that they have not read.                                         *)
WriteField(c) ==
    LET added == Added(calls[c].args, calls[c].seen)
    IN  /\ calls[c].pc = "put"
        /\ nextId + Len(added) <= MaxId
        /\ options' = Resent(calls[c].seen)
                        \union {[id |-> nextId + n - 1, label |-> added[n]] : n \in DOMAIN added}
        /\ nextId' = nextId + Len(added)
        /\ calls' = [d \in Callers |->
                       CASE d = c -> [calls[d] EXCEPT !.pc = "written"]
                         [] d # c /\ calls[d].pc = "put" ->
                               [calls[d] EXCEPT !.missed =
                                  @ \union (LabelsOf(options') \ LabelsOf(calls[d].seen))]
                         [] OTHER -> calls[d]]
        /\ confirmed' = (confirmed \ calls[c].missed) \union ToSet(calls[c].args)
        /\ UNCHANGED hasOptions

(* The answer arrives and the tool returns. *)
Return(c) ==
    /\ calls[c].pc = "written"
    /\ calls' = [calls EXCEPT ![c] = Idle]
    /\ UNCHANGED <<hasOptions, options, nextId, confirmed>>

(* A request fails, or its answer is lost: the call may be repeated. *)
Fail(c) ==
    /\ calls[c].pc \in {"get", "put", "written"}
    /\ calls' = [calls EXCEPT ![c] = Idle]
    /\ UNCHANGED <<hasOptions, options, nextId, confirmed>>

Next ==
    \E c \in Callers :
        \/ \E args \in Arguments : Call(c, args)
        \/ ReadField(c) \/ SkipAll(c) \/ Refuse(c) \/ WriteField(c) \/ Return(c) \/ Fail(c)

Spec == Init /\ [][Next]_vars

----------------------------------------------------------------------------
(* Properties. *)

(* Every variable has its shape. *)
TypeOK ==
    /\ hasOptions \in BOOLEAN
    /\ options \subseteq Options \union OtherItems
    /\ nextId \in Nat
    /\ calls \in [Callers -> {Idle} \union [pc : {"get"}, args : Arguments]
                   \union [pc : {"put", "written"}, args : Arguments,
                           seen : SUBSET (Options \union OtherItems), missed : SUBSET Labels]]
    /\ confirmed \subseteq Labels

(* No two options ever have one label, whatever calls overlap, are         *)
(* repeated after a lost answer, or name a label twice.                    *)
LabelsUnique == \A o, p \in options \ OtherItems : o.label = p.label => o = p

(* A label that a call has added or skipped, which it reports, stays        *)
(* upstream through all later calls, their failures and repetitions.  Only  *)
(* a call that had read the field before the label came can take it away:   *)
(* each PUT sends again what its GET showed.                                *)
ConfirmedLabelsKept == confirmed \subseteq LabelsOf(options)

(* "Callers can't accidentally drop existing options": once the upstream   *)
(* has an option, no call of the tool removes it.                          *)
ExistingOptionsKept == [][options \subseteq options']_vars
=============================================================================
