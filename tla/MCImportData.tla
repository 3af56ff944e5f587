----------------------------- MODULE MCImportData -----------------------------
(***************************************************************************)
(* The data of an import, for TLC: in which block an entry of a history is *)
(* (EntryResolution), what its events say (EventDecoding), and the check   *)
(* of the outcome against the chain (Verification). They share no          *)
(* variable; `part' says which of them moves in a behaviour, the others    *)
(* stay in one initial state.                                              *)
(***************************************************************************)
EXTENDS EntryResolution, EventDecoding, Verification

VARIABLE part

everything == <<part, resolutionVars, decodingVars, verificationVars>>

\* Transactions on the trunk or anywhere on the two branches; each may be in a
\* block of a dead fork as well, at the end of the trunk or, for one on the
\* trunk, above it.
OnTrunk  == {[a |-> h, b |-> h, dead |-> d] : h \in 1 .. ForkAt, d \in {{}, {ForkAt}, {ForkAt + 1}}}
OnBranch == {[a |-> h, b |-> i, dead |-> d] :
               h \in {0} \cup ForkAt + 1 .. MaxHeight, i \in {0} \cup ForkAt + 1 .. MaxHeight,
               d \in {{}, {ForkAt}}}

MCPlacements == [Txs -> OnTrunk \cup {s \in OnBranch : s.a + s.b # 0}]

\* A history that begins after the cutoff.
Later == [t \in Txs |-> [a |-> MaxHeight, b |-> MaxHeight, dead |-> {}]]

Init ==
  /\ part \in {"resolution", "decoding", "verification"}
  /\ ResolutionInit
  /\ part # "resolution" => at = Later /\ branch = "a" /\ cutoff = 1
  /\ DecodingInit
  /\ part # "decoding" => name = [kind |-> "other", ends |-> FALSE]
  /\ VerificationInit
  /\ part # "verification" => mode = "import" /\ touched = {} /\ \A k \in Addresses : final[k] = 0

Next ==
  \/ part = "resolution" /\ ResolutionNext /\ UNCHANGED <<part, decodingVars, verificationVars>>
  \/ part = "decoding" /\ DecodingNext /\ UNCHANGED <<part, resolutionVars, verificationVars>>
  \/ /\ part = "verification" /\ VerificationNext
     /\ mode = "dryrun" => moves' <= 1
     /\ UNCHANGED <<part, resolutionVars, decodingVars>>

\* The fairness EntryResolution states, for the behaviours in which it moves.
Spec ==
  /\ Init /\ [][Next]_everything
  /\ WF_resolutionVars(part = "resolution" /\ AdvanceLib)
  /\ WF_resolutionVars(part = "resolution" /\ ReplayStep)

\* Every variable has its type.
TypeOK == ResolutionTypeOK /\ DecodingTypeOK /\ VerificationTypeOK
================================================================================
