------------------------------ MODULE KeyLedger ------------------------------
(***************************************************************************)
(* What the API-key endpoints promise who submits a form or a command      *)
(* (src/main.rs:830-851): it is carried out once at most, all of it at one *)
(* instant, and who is told the outcome is told that of the one time.  How *)
(* often a submission is sent, what becomes of the attempts, and which     *)
(* page waits for them, is no part of it.                                  *)
(***************************************************************************)
EXTENDS Naturals, Sequences, FiniteSets

CONSTANTS
    MaxKeys,        \* bound: keys the authority has room for
    Already,        \* how many keys have been issued before
    MaxPresses,     \* bound: forms pressed and commands given
    MaxLoads        \* bound: times the page is loaded

ASSUME KeyLedgerAssumption ==
    MaxKeys \in Nat \ {0} /\ Already \in 0..MaxKeys /\ MaxPresses \in Nat /\ MaxLoads \in Nat \ {0}

VARIABLES
    issued,     \* authority: each key's version (0: not issued) and whether it is revoked
    done,       \* authority: the answer each idempotency key was given
    pressed,    \* history: what was asked under each idempotency key, and from where
    told        \* history: the answers to mutations that reached who asked

----------------------------------------------------------------------------
KeyIds == 1..MaxKeys

None == 0

\* Where a mutation comes from: the n-th load of the page, or a JSON client.
Json == 0

\* The forms of the page: one to create, and two in the row of an active key.
Forms == {<<"create", None>>} \cup ({"rotate", "revoke"} \X KeyIds)

Intent == {[op |-> f[1], key |-> f[2], via |-> v] : f \in Forms, v \in Json..MaxLoads}

\* An answer names the key and the version whose secret it carries; a refusal, neither.
Answer(key, version) == [key |-> key, version |-> version]

Refused == Answer(None, 0)

Answers == [key : {None} \cup KeyIds, version : 0..(MaxPresses + 1)]

\* auth_key_to_display: an issued key that is not revoked.
Active(rows, k) == rows[k].version > 0 /\ ~rows[k].revoked

Ids == 1..Len(pressed)

\* What the authority makes of a mutation it has not seen: the keys it may pick, what
\* becomes of the key, and the answer.
Targets(i) ==
    IF i.op = "create" THEN {k \in KeyIds : issued[k].version = 0
                                            /\ \A j \in KeyIds : issued[j].version = 0 => k <= j}
    ELSE {k \in {i.key} : Active(issued, k)}

Mutated(op, row) ==
    IF op = "revoke" THEN [row EXCEPT !.revoked = TRUE] ELSE [row EXCEPT !.version = @ + 1]

TakesEffect(i, answer) ==
    \/ \E k \in Targets(i) :
          /\ issued' = [issued EXCEPT ![k] = Mutated(i.op, @)]
          /\ answer = Answer(k, issued'[k].version)
    \/ /\ Targets(i) = {}
       /\ answer = Refused
       /\ UNCHANGED issued

----------------------------------------------------------------------------
AskFor(i) ==
    /\ Len(pressed) < MaxPresses
    /\ pressed' = Append(pressed, i)
    /\ UNCHANGED <<issued, done, told>>

\* Submission `id` is carried out, or refused for good: the one time.
CarryOut(id) ==
    /\ done[id] = <<>>
    /\ \E answer \in Answers :
          /\ TakesEffect(pressed[id], answer)
          /\ done' = [done EXCEPT ![id] = <<answer>>]

\* Who made it hears what came of it.
Inform(id) ==
    /\ done'[id] \notin {<<>>, <<Refused>>}
    /\ told' = [told EXCEPT ![id] = done'[id]]

LedgerInit ==
    /\ issued = [k \in KeyIds |-> [version |-> IF k <= Already THEN 1 ELSE 0, revoked |-> FALSE]]
    /\ done = [id \in 1..MaxPresses |-> <<>>]
    /\ pressed = <<>>
    /\ told = [id \in 1..MaxPresses |-> <<>>]

LedgerNext ==
    \/ \E i \in Intent : AskFor(i)
    \/ \E id \in Ids :
          /\ CarryOut(id) \/ UNCHANGED <<issued, done>>
          /\ Inform(id) \/ UNCHANGED told
          /\ UNCHANGED pressed

LedgerSpec == LedgerInit /\ [][LedgerNext]_<<issued, done, pressed, told>>
=============================================================================
