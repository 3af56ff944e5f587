----------------------------- MODULE Verification -----------------------------
(***************************************************************************)
(* The check of an imported token against the chain: CheckToken with       *)
(* verifyBackfill after the import (mode "import"), and the same check of  *)
(* a replay held in memory (mode "dryrun", runBackfillDryRun).             *)
(*                                                                         *)
(* `stored' is what the replay computed, right or wrong.  The node         *)
(* (external) answers balance_of with its head state, `head', while the    *)
(* block sync follows `final'; `pending' are the changes between them.     *)
(*                                                                         *)
(* phase: list -> the check is about to begin; lookup -> at the head of    *)
(* the loop over the holders; asking -> inside BalanceOf; record -> the    *)
(* loop is done; sync -> the block sync follows the chain; down -> the     *)
(* process has stopped; reported -> a dry run has ended.                   *)
(***************************************************************************)
EXTENDS Integers, Sequences, FiniteSets

CONSTANTS
  Addresses,     \* addresses
  MaxBalance,    \* bound on balances
  MaxRetries,    \* maxRetries of BalanceOf
  MaxMoves,      \* bound: balance changes of the chain
  MaxSetbacks    \* bound: stops and lost records

Balances == 0 .. MaxBalance
Stored   == 0 .. MaxBalance * (MaxMoves + 1)

ASSUME VerificationAssumption ==
  /\ IsFiniteSet(Addresses)
  /\ {MaxBalance, MaxMoves, MaxSetbacks} \subseteq Nat /\ MaxRetries \in Nat \ {0}

VARIABLES
  mode,                      \* which of the two programs runs
  head, final, pending,      \* the chain
  stored, touched,           \* the replay's balances, and the addresses it met
  rec,                       \* verified, mismatches and failures of token_backfill
  phase, snap, todo, asked, attempt, res,  \* locals of the check
  missed,                    \* holders of the running check that did not match
  moves, setbacks

chain  == <<head, final, pending, moves>>
locals == <<snap, todo, asked, attempt, res, missed>>
verificationVars == <<mode, chain, stored, touched, rec, phase, locals, setbacks>>

Nobody == "nobody"
NoResult == [checked |-> 0, mismatches |-> 0, failures |-> 0]

VerificationInit ==
  /\ mode \in {"import", "dryrun"}
  /\ final \in [Addresses -> Balances] /\ head = final /\ pending = <<>>
  /\ touched \in SUBSET Addresses
  /\ stored \in {s \in [Addresses -> Balances] : \A a \in Addresses \ touched : s[a] = 0}
  /\ rec = [verified |-> FALSE, mismatches |-> 0, failures |-> 0]
  /\ phase = "list" /\ snap = <<>> /\ todo = {} /\ asked = Nobody /\ attempt = 0
  /\ res = NoResult /\ missed = {}
  /\ moves = 0 /\ setbacks = 0

-----------------------------------------------------------------------------
(* The chain and the block sync                                              *)

ChainMoves ==
  /\ moves < MaxMoves
  /\ \E a \in Addresses, n \in Balances :
       /\ n # head[a]
       /\ head' = [head EXCEPT ![a] = n]
       /\ pending' = Append(pending, <<a, n - head[a]>>)
  /\ moves' = moves + 1
  /\ UNCHANGED <<mode, final, stored, touched, rec, phase, locals, setbacks>>

Clamped(n) == IF n < 0 THEN 0 ELSE n

\* An irreversible change reaches the store, clamped at zero.
SyncBlock ==
  /\ phase = "sync" /\ pending # <<>>
  /\ LET a == pending[1][1]
         d == pending[1][2]
     IN /\ final' = [final EXCEPT ![a] = @ + d]
        /\ stored' = [stored EXCEPT ![a] = Clamped(@ + d)]
        /\ touched' = touched \cup {a}
  /\ pending' = Tail(pending)
  /\ UNCHANGED <<mode, head, moves, rec, phase, locals, setbacks>>

-----------------------------------------------------------------------------
(* CheckToken                                                                *)

Setback == setbacks < MaxSetbacks /\ setbacks' = setbacks + 1

\* Mutant: the findings of a check that was cut short are kept.
ListOnTop ==
  /\ phase = "list"
  /\ snap' = stored
  /\ todo' = IF mode = "dryrun" THEN touched ELSE {a \in Addresses : stored[a] # 0}
  /\ res' = [res EXCEPT !.checked = IF mode = "dryrun" THEN 0 ELSE Cardinality(todo')]
  /\ missed' = {}
  /\ phase' = "lookup"
  /\ UNCHANGED <<mode, chain, stored, touched, rec, asked, attempt, setbacks>>

\* Mutant: a dry run looks at the holders only, like an import.
ListHoldersOnly ==
  /\ phase = "list"
  /\ snap' = stored
  /\ todo' = {a \in Addresses : stored[a] # 0}
  /\ res' = [NoResult EXCEPT !.checked = IF mode = "dryrun" THEN 0 ELSE Cardinality(todo')]
  /\ missed' = {}
  /\ phase' = "lookup"
  /\ UNCHANGED <<mode, chain, stored, touched, rec, asked, attempt, setbacks>>

\* One snapshot: the stored holders, or in a dry run every address of the replay.
List ==
  /\ phase = "list"
  /\ snap' = stored
  /\ todo' = IF mode = "dryrun" THEN touched ELSE {a \in Addresses : stored[a] # 0}
  /\ res' = [NoResult EXCEPT !.checked = IF mode = "dryrun" THEN 0 ELSE Cardinality(todo')]
  /\ missed' = {}
  /\ phase' = "lookup"
  /\ UNCHANGED <<mode, chain, stored, touched, rec, asked, attempt, setbacks>>

\* Mutant: the pauses are counted, not the attempts.
AskOneMore ==
  /\ phase = "asking" /\ attempt <= MaxRetries
  /\ attempt' = attempt + 1
  /\ UNCHANGED <<mode, chain, stored, touched, rec, phase, snap, todo, asked, res, missed, setbacks>>

NextHolder ==
  /\ phase = "lookup"
  /\ \E a \in todo : asked' = a /\ todo' = todo \ {a}
  /\ attempt' = 1
  /\ phase' = "asking"
  /\ UNCHANGED <<mode, chain, stored, touched, rec, snap, res, missed, setbacks>>

\* BalanceOf answers: an empty result is zero, an error is not an answer.
Answered ==
  /\ phase = "asking"
  /\ LET same == head[asked] = snap[asked]
     IN /\ res' = [res EXCEPT !.checked = IF mode = "dryrun" THEN @ + 1 ELSE @,
                              !.mismatches = IF same THEN @ ELSE @ + 1]
        /\ missed' = IF same THEN missed ELSE missed \cup {asked}
  /\ phase' = "lookup" /\ asked' = Nobody
  /\ UNCHANGED <<mode, chain, stored, touched, rec, snap, todo, attempt, setbacks>>

\* Transport errors and other status codes are retried after a pause.
AskAgain ==
  /\ phase = "asking" /\ attempt < MaxRetries
  /\ attempt' = attempt + 1
  /\ UNCHANGED <<mode, chain, stored, touched, rec, phase, snap, todo, asked, res, missed, setbacks>>

\* Mutant: a lookup without an answer is no failure.
LookupForgotten ==
  /\ phase = "asking"
  /\ missed' = missed \cup {asked}
  /\ phase' = "lookup" /\ asked' = Nobody
  /\ UNCHANGED <<mode, chain, stored, touched, rec, snap, todo, attempt, res, setbacks>>

\* The last attempt failed, or the answer is an error or not readable.
LookupFails ==
  /\ phase = "asking"
  /\ res' = [res EXCEPT !.failures = @ + 1]
  /\ missed' = missed \cup {asked}
  /\ phase' = "lookup" /\ asked' = Nobody
  /\ UNCHANGED <<mode, chain, stored, touched, rec, snap, todo, attempt, setbacks>>

Finish ==
  /\ phase = "lookup" /\ todo = {}
  /\ phase' = "record"
  /\ UNCHANGED <<mode, chain, stored, touched, rec, locals, setbacks>>

-----------------------------------------------------------------------------
(* verifyBackfill, runBackfillDryRun and the process                         *)

\* CheckResult.Verified, and the exit code of a dry run.
Passes(r) == r.checked > 0 /\ r.failures = 0 /\ r.mismatches = 0

Record ==
  /\ phase = "record"
  /\ rec' = [verified |-> Passes(res), mismatches |-> res.mismatches, failures |-> res.failures]
  /\ phase' = IF mode = "dryrun" THEN "reported" ELSE "sync"
  /\ UNCHANGED <<mode, chain, stored, touched, locals, setbacks>>

\* The record cannot be read or written: only logged.
RecordFails ==
  /\ phase = "record" /\ mode = "import"
  /\ Setback
  /\ phase' = "sync"
  /\ UNCHANGED <<mode, chain, stored, touched, rec, locals>>

\* A signal or a crash; a check that is cut short records nothing.
Stop ==
  /\ phase \notin {"down", "reported"} /\ mode = "import"
  /\ Setback
  /\ phase' = "down"
  /\ UNCHANGED <<mode, chain, stored, touched, rec, locals>>

\* The next start checks the token again, unless it is verified.
Start ==
  /\ phase = "down"
  /\ asked' = Nobody
  /\ phase' = IF rec.verified THEN "sync" ELSE "list"
  /\ UNCHANGED <<mode, chain, stored, touched, rec, snap, todo, attempt, res, missed, setbacks>>

CheckStep ==
  \/ List \/ NextHolder \/ Answered \/ AskAgain \/ LookupFails \/ Finish
  \/ Record \/ RecordFails

VerificationNext == ChainMoves \/ SyncBlock \/ CheckStep \/ Stop \/ Start

VerificationSpec == VerificationInit /\ [][VerificationNext]_verificationVars

-----------------------------------------------------------------------------
(* Properties                                                                *)

\* Every variable has its type.
VerificationTypeOK ==
  /\ head \in [Addresses -> Balances] /\ final \in [Addresses -> Balances]
  /\ stored \in [Addresses -> Stored] /\ touched \subseteq Addresses
  /\ rec \in [verified : BOOLEAN, mismatches : 0 .. Cardinality(Addresses),
              failures : 0 .. Cardinality(Addresses)]
  /\ phase \in {"list", "lookup", "asking", "record", "sync", "down", "reported"}
  /\ todo \subseteq Addresses /\ asked \in Addresses \cup {Nobody}
  /\ attempt \in 0 .. MaxRetries /\ missed \subseteq Addresses
  /\ moves \in 0 .. MaxMoves /\ setbacks \in 0 .. MaxSetbacks

\* What a check records is true (CheckToken, verifyBackfill, runBackfillDryRun):
\* it accounts for every holder without a match, as one whole check found them,
\* none lost to a failed lookup, a retry or a stop; and it says verified on a chain
\* that stood still during the check only if every holder of the import, or every
\* address a dry run met, has its balance.
RecordIsTrue ==
  [][rec' # rec =>
       LET checked == IF mode = "dryrun" THEN touched ELSE {a \in Addresses : stored[a] # 0}
       IN /\ todo = {} /\ asked = Nobody
          /\ rec'.mismatches + rec'.failures = Cardinality(missed)
          /\ rec'.verified /\ pending = <<>> =>
               checked # {} /\ \A a \in checked : stored[a] = final[a]]_verificationVars
================================================================================
