---------------------------- MODULE TokenEvents ----------------------------
(***************************************************************************)
(* The pure part of internal/indexer: which events of a block count, for   *)
(* which token, and which addresses they move value between.               *)
(*                                                                         *)
(* Addresses and contract ids are model values.  NoAddr is the empty       *)
(* string the decoder returns for a missing address field.  An event is    *)
(* the decoded receipt event; `reverted' is the flag of its transaction    *)
(* (FALSE for block-level events).  A value is a natural number: values    *)
(* above MaxSafeValue stand for those above math.MaxInt64.                 *)
(***************************************************************************)
EXTENDS Integers, Sequences

CONSTANTS
    Koin, Vhp,          \* cfg.KoinContract, cfg.VhpContract
    OldKoin, OldVhp,    \* cfg.OldKoinContract, cfg.OldVhpContract
    Extras,             \* contracts that --track-token may name
    Accounts,           \* holders, producers, payers
    NoAddr,             \* the empty address
    MigrationHeight,    \* cfg.KCS4MigrationHeight
    MaxSafeValue        \* maxSafeValue = math.MaxInt64

BaseContracts == {Koin, Vhp, OldKoin, OldVhp}
Contracts == BaseContracts \cup Extras
Tokens    == {Koin, Vhp} \cup Extras
Addresses == Accounts \cup Contracts

ASSUME ContractsAssumption ==
    /\ Koin # Vhp /\ Koin # OldKoin /\ Koin # OldVhp
    /\ Vhp # OldKoin /\ Vhp # OldVhp /\ OldKoin # OldVhp
    /\ BaseContracts \cap Extras = {}
    /\ NoAddr \notin Addresses

ASSUME LimitsAssumption ==
    /\ MigrationHeight \in Nat
    /\ MaxSafeValue \in Nat

TransferKinds == {"transfer", "mint", "burn"}

Event == [source : Contracts, kind : TransferKinds \cup {"other"},
          from : Accounts \cup {NoAddr}, to : Accounts \cup {NoAddr},
          value : Nat, impacted : SUBSET Accounts, reverted : BOOLEAN]

(* The contents of a block: its signer, the payers and payees of its       *)
(* transactions, and the events of its receipt in order.                   *)
BlockBody == [signer : Accounts \cup {NoAddr}, parties : SUBSET Accounts,
              events : Seq(Event)]

----------------------------------------------------------------------------
(* isTokenEvent, affectsBalance and normalizeToken; `extras' is the set    *)
(* cfg.ExtraTokens of the running process.                                 *)

IsTokenEvent(extras, src) == src \in BaseContracts \cup extras

(* Mutant: the migration block still counts legacy VHP.                    *)
AffectsBalanceOneMore(extras, src, h) ==
    \/ src \in {Koin, OldKoin, Vhp} \cup extras
    \/ src = OldVhp /\ h <= MigrationHeight

AffectsBalance(extras, src, h) ==
    \/ src \in {Koin, OldKoin, Vhp} \cup extras
    \/ src = OldVhp /\ h < MigrationHeight

NormalizeToken(src) ==
    CASE src = OldKoin -> Koin
      [] src = OldVhp  -> Vhp
      [] OTHER         -> src

(* Only a transfer or a burn names a sender, only a transfer or a mint a   *)
(* receiver; the other field is absent from the payload.                   *)
Debited(e)  == IF e.kind \in {"transfer", "burn"} THEN e.from ELSE NoAddr
Credited(e) == IF e.kind \in {"transfer", "mint"} THEN e.to   ELSE NoAddr

(* Mutant: an event of an unknown name is kept.                            *)
RecordedAnyKind(extras, e) ==
    /\ ~e.reverted
    /\ IsTokenEvent(extras, e.source)
    /\ e.value \in 1..MaxSafeValue

(* Mutant: the events of a reverted transaction are kept.                  *)
RecordedReverted(extras, e) ==
    /\ IsTokenEvent(extras, e.source)
    /\ e.kind \in TransferKinds
    /\ e.value \in 1..MaxSafeValue

(* The events processEvent keeps: of a transaction that was not reverted,  *)
(* from a tracked contract, of a known kind, with a value in int64 range.  *)
(* A zero or larger value returns early, without a trace.                  *)
Recorded(extras, e) ==
    /\ ~e.reverted
    /\ IsTokenEvent(extras, e.source)
    /\ e.kind \in TransferKinds
    /\ e.value \in 1..MaxSafeValue

ChangesBalance(extras, e, h) ==
    Recorded(extras, e) /\ AffectsBalance(extras, e.source, h)

(* The address set ProcessBlock collects: signer, payers and payees, and   *)
(* source, impacted and credited or debited addresses of live events.      *)
BlockAddresses(extras, body, h) ==
    LET live    == {i \in DOMAIN body.events : ~body.events[i].reverted}
        touched == {i \in live : ChangesBalance(extras, body.events[i], h)}
    IN  ( {body.signer} \cup body.parties
          \cup {Debited(body.events[i])  : i \in touched}
          \cup {Credited(body.events[i]) : i \in touched}
          \cup UNION {body.events[i].impacted \cup {body.events[i].source} : i \in live}
        ) \ {NoAddr}
=============================================================================
