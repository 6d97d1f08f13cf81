----------------------------- MODULE KeyedQueue -----------------------------
(***************************************************************************)
(* What the operation locks of ArubaBleProxyRuntime promise to callers: per*)
(* key, callers form one line; only the caller at the front is ever inside *)
(* the critical section; a caller that gives up leaves the line without    *)
(* disturbing the order of the others.  Nothing is said of slots, user     *)
(* counts or asyncio locks: OperationLocks implements this module.         *)
(***************************************************************************)
EXTENDS Sequences, Naturals, SequencesExt

CONSTANTS
  Call,   \* invocations of `async with self._active_operation(...)`
  Key     \* operation lock keys

VARIABLES
  line,   \* [Key -> Seq(Call)]: who holds or waits for the key, in order
  inside  \* the calls in their critical section

vars == << line, inside >>

InLine(c) == \E k \in Key : c \in ToSet(line[k])

Init ==
  /\ line   = [k \in Key |-> << >>]
  /\ inside = {}

(* A caller that finds the line empty goes straight in. *)
ArriveAtEmpty(c, k) ==
  /\ ~ InLine(c)
  /\ line[k] = << >>
  /\ line'   = [line EXCEPT ![k] = << c >>]
  /\ inside' = inside \cup {c}

ArriveBehind(c, k) ==
  /\ ~ InLine(c)
  /\ line[k] # << >>
  /\ line' = [line EXCEPT ![k] = Append(@, c)]
  /\ UNCHANGED inside

Enter(c, k) ==
  /\ line[k] # << >>
  /\ Head(line[k]) = c
  /\ c \notin inside
  /\ inside' = inside \cup {c}
  /\ UNCHANGED line

Leave(c, k) ==
  /\ line[k] # << >>
  /\ Head(line[k]) = c
  /\ c \in inside
  /\ line'   = [line EXCEPT ![k] = Tail(@)]
  /\ inside' = inside \ {c}

Abandon(c, k) ==
  /\ c \notin inside
  /\ \E i \in DOMAIN line[k] :
       /\ line[k][i] = c
       /\ line' = [line EXCEPT ![k] = RemoveAt(@, i)]
  /\ UNCHANGED inside

Next ==
  \E c \in Call, k \in Key :
    \/ ArriveAtEmpty(c, k)
    \/ ArriveBehind(c, k)
    \/ Enter(c, k)
    \/ Leave(c, k)
    \/ Abandon(c, k)

Spec == Init /\ [][Next]_vars

=============================================================================
