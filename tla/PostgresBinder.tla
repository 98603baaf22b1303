----------------------------- MODULE PostgresBinder -----------------------------
(***************************************************************************)
(* How Postgres::PreparedSTMT keeps the parameters of one Execute alive    *)
(* (postgres/prepared_stmt.cxx, prepared_stmt.hxx Execute): m_param_values *)
(* points into m_string_storage and m_blob_storage while both grow.        *)
(*                                                                         *)
(* A std::string of a few characters keeps them inside itself, in the      *)
(* element of the vector; a longer one, and a blob, keep them in a block   *)
(* of its own that does not move with the element.  The address of a       *)
(* vector's elements changes exactly when its capacity does, so capacity   *)
(* stands for the address.                                                 *)
(***************************************************************************)
EXTENDS Naturals, Sequences

CONSTANTS
    Kinds,          \* kinds of values bound: "null", "short", "long", "blob"
    MaxParams,      \* most parameters of a statement
    MaxCapacity,    \* bound on how far a vector over-allocates
    Null            \* a null pointer, and the value NULL

ASSUME KindsAssumption ==
    /\ Kinds \subseteq {"null", "short", "long", "blob"}
    /\ MaxParams \in Nat
    /\ MaxCapacity \in Nat
    /\ MaxParams <= MaxCapacity

VARIABLES
    pc,         \* "idle", "binding" or "sent"
    capacity,   \* of m_string_storage
    room,       \* history: the capacity when this Execute began
    strings,    \* m_string_storage
    blobs,      \* m_blob_storage
    params,     \* m_param_values
    bound       \* history: the values bound, in order

vars == <<pc, capacity, room, strings, blobs, params, bound>>

\* A value is identified by its position; its kind says where it is kept.
Value == [kind: Kinds, position: 1..MaxParams]

\* Where a parameter pointer points.
Inline(address, slot) == [to |-> "element", address |-> address, slot |-> slot]
Block(value) == [to |-> "block", of |-> value]

Located == {Block(v) : v \in Value}
              \cup {Inline(a, s) : a \in 1..MaxCapacity, s \in 1..MaxParams}

ASSUME NullAssumption == Null \notin Located

Init ==
    /\ pc = "idle"
    /\ capacity = 0
    /\ room = 0
    /\ strings = <<>>
    /\ blobs = <<>>
    /\ params = <<>>
    /\ bound = <<>>

\* Slip: the parameters of the last Execute are still there.
ResetKeepsParams ==
    /\ strings' = <<>>
    /\ blobs' = <<>>
    /\ UNCHANGED params

\* Reset clears; a cleared vector keeps its capacity.
Reset ==
    /\ strings' = <<>>
    /\ blobs' = <<>>
    /\ params' = <<>>

\* Execute begins with Reset.
BeginExecute ==
    /\ pc = "idle"
    /\ Reset
    /\ room' = capacity
    /\ bound' = <<>>
    /\ pc' = "binding"
    /\ UNCHANGED capacity

\* emplace_back reallocates only when the vector is full, to a capacity that
\* is the implementation's choice.
Grown == IF Len(strings) < capacity THEN {capacity} ELSE (capacity + 1)..MaxCapacity

BindNull(v) ==
    /\ v.kind = "null"
    /\ params' = Append(params, Null)
    /\ UNCHANGED <<capacity, strings, blobs>>

\* Slip: the address of the last element is taken before the new one is there.
BindStringTooEarly(v) ==
    /\ v.kind \in {"short", "long"}
    /\ capacity' \in Grown
    /\ strings' = Append(strings, v)
    /\ params' = Append(params,
          IF v.kind = "short" THEN Inline(capacity, Len(strings)) ELSE Block(v))
    /\ UNCHANGED blobs

BindString(v) ==
    /\ v.kind \in {"short", "long"}
    /\ capacity' \in Grown
    /\ strings' = Append(strings, v)
    /\ params' = Append(params,
          IF v.kind = "short" THEN Inline(capacity', Len(strings')) ELSE Block(v))
    /\ UNCHANGED blobs

BindBlob(v) ==
    /\ v.kind = "blob"
    /\ blobs' = Append(blobs, v)
    /\ params' = Append(params, Block(v))
    /\ UNCHANGED <<capacity, strings>>

\* Binder(index, value) for the next position.
Bind(kind) ==
    LET v == [kind |-> kind, position |-> Len(bound) + 1]
    IN /\ pc = "binding"
       /\ Len(bound) < MaxParams
       /\ BindNull(v) \/ BindString(v) \/ BindBlob(v)
       /\ bound' = Append(bound, v)
       /\ UNCHANGED <<pc, room>>

\* DoExecute hands the pointers to PQexecPrepared.
Send ==
    /\ pc = "binding"
    /\ pc' = "sent"
    /\ UNCHANGED <<capacity, room, strings, blobs, params, bound>>

\* Execute ends with Reset.
EndExecute ==
    /\ pc = "sent"
    /\ Reset
    /\ pc' = "idle"
    /\ UNCHANGED <<capacity, room, bound>>

Next == BeginExecute \/ (\E kind \in Kinds : Bind(kind)) \/ Send \/ EndExecute

Spec == Init /\ [][Next]_vars

-----------------------------------------------------------------------------
(* Properties.                                                             *)

Pointer == Located \cup {Null}

\* Types of the vectors and pointers.
TypeOK ==
    /\ pc \in {"idle", "binding", "sent"}
    /\ capacity \in 0..MaxCapacity
    /\ room \in 0..MaxCapacity
    /\ strings \in Seq(Value)
    /\ blobs \in Seq(Value)
    /\ params \in Seq(Pointer)
    /\ bound \in Seq(Value)

\* Pointer p still leads to the characters of v.
LeadsTo(p, v) ==
    CASE p = Null -> v.kind = "null"
      [] p # Null /\ p.to = "block" ->
            p.of = v /\ \E i \in DOMAIN strings \cup DOMAIN blobs :
                           \/ i \in DOMAIN strings /\ strings[i] = v
                           \/ i \in DOMAIN blobs /\ blobs[i] = v
      [] OTHER ->
            p.address = capacity /\ p.slot \in DOMAIN strings /\ strings[p.slot] = v

AsBound ==
    /\ Len(params) = Len(bound)
    /\ \A i \in DOMAIN bound : LeadsTo(params[i], bound[i])

\* What is sent is what was bound, position by position: m_string_storage
\* "Owns text/numeric string params" (prepared_stmt.hxx:75).
SentAsBound == pc = "sent" => AsBound

\* As many parameters are sent as were bound, and each as it was bound, but
\* for the short strings before the last parameter of an execution that binds
\* more strings than any earlier one of the statement: only they are kept
\* inside a std::string that may move.
SentAsBoundUnlessMoved ==
    pc = "sent" =>
        /\ Len(params) = Len(bound)
        /\ \A i \in DOMAIN bound :
              bound[i].kind # "short" \/ i = Len(bound) \/ Len(strings) <= room
                  => LeadsTo(params[i], bound[i])

=============================================================================
