----------------------------- MODULE EventDecoding -----------------------------
(***************************************************************************)
(* One token event, read by two decoders.  The live block processor reads  *)
(* the payload with parseTransferEvent, parseMintEvent or parseBurnEvent   *)
(* and ignores what it cannot read; the history replay reads the payload   *)
(* of the same event with decodeRawTokenEvent and refuses it.  For the     *)
(* balances of an imported token the two must agree.                       *)
(*                                                                         *)
(* The payload reaches both field by field, any number of fields in any    *)
(* order; `name' is what the event name says.  Where the REST node decoded *)
(* the payload itself, decodeEvent is handed the values a complete reading *)
(* gives.                                                                  *)
(***************************************************************************)
EXTENDS Naturals

CONSTANTS
  Accounts,      \* addresses of the usual length
  OddAddrs,      \* other non-empty byte strings in an address field
  NoAddr,        \* an absent or empty field
  Values,        \* values a varint may have
  MaxSafeValue   \* maxSafeValue

ASSUME DecodingAssumption ==
  /\ NoAddr \notin Accounts \cup OddAddrs
  /\ Values \subseteq Nat /\ MaxSafeValue \in Nat

Kinds == {"transfer", "mint", "burn"}
Addrs == Accounts \cup OddAddrs \cup {NoAddr}

VARIABLES
  name,     \* kind: the kind it contains; ends: it also ends with it
  live,     \* the variables of the parse...Event loop
  replay,   \* the variables of the decodeRawTokenEvent loop
  done      \* the payload has been read

decodingVars == <<name, live, replay, done>>

Names == [kind : Kinds \cup {"other"}, ends : BOOLEAN]

UnreadLive   == [from |-> NoAddr, to |-> NoAddr, value |-> 0, stopped |-> FALSE]
UnreadReplay == [addrs |-> [n \in 1 .. 2 |-> NoAddr], nums |-> [n \in 1 .. 3 |-> 0], bad |-> FALSE]

DecodingInit ==
  /\ name \in Names
  /\ live = UnreadLive /\ replay = UnreadReplay
  /\ done = FALSE

-----------------------------------------------------------------------------
(* Fields                                                                    *)

\* The field that holds the value of an event.
ValueField == IF name.kind = "transfer" THEN 3 ELSE 2

\* A field of bytes: the sender of a transfer or a burn, the receiver of a mint
\* or, in field 2, of a transfer.
LiveBytes(num, a) ==
  live' =
    IF live.stopped THEN live
    ELSE CASE num = 1 /\ name.kind \in {"transfer", "burn"} -> [live EXCEPT !.from = a]
           [] num = 1 /\ name.kind = "mint"                 -> [live EXCEPT !.to = a]
           [] num = 2 /\ name.kind = "transfer"             -> [live EXCEPT !.to = a]
           [] OTHER -> live

\* Mutant: the value of a mint or a burn is looked for in field 3.
LiveVarintThird(num, v) ==
  live' = IF ~live.stopped /\ num = 3 /\ name.kind \in Kinds
          THEN [live EXCEPT !.value = v] ELSE live

LiveVarint(num, v) ==
  live' = IF ~live.stopped /\ num = ValueField /\ name.kind \in Kinds
          THEN [live EXCEPT !.value = v] ELSE live

ReplayBytes(num, a) ==
  replay' = IF num \in 1 .. 2 THEN [replay EXCEPT !.addrs[num] = a] ELSE replay

ReplayVarint(num, v) ==
  replay' = IF num \in 1 .. 3 THEN [replay EXCEPT !.nums[num] = v] ELSE replay

Bytes ==
  /\ ~done
  /\ \E num \in 1 .. 4, a \in Addrs : LiveBytes(num, a) /\ ReplayBytes(num, a)
  /\ UNCHANGED <<name, done>>

Varint ==
  /\ ~done
  /\ \E num \in 1 .. 4, v \in Values : LiveVarint(num, v) /\ ReplayVarint(num, v)
  /\ UNCHANGED <<name, done>>

\* A complete group: consumeUnknownField gives up, ConsumeFieldValue passes it.
Group ==
  /\ ~done
  /\ live' = [live EXCEPT !.stopped = TRUE]
  /\ UNCHANGED <<name, replay, done>>

\* Mutant: the replay notes the error and reads on.
MalformedGoesOn ==
  /\ ~done
  /\ live' = [live EXCEPT !.stopped = TRUE]
  /\ replay' = [replay EXCEPT !.bad = TRUE]
  /\ UNCHANGED <<name, done>>

\* Bytes that are no field end both loops; the live decoder returns what it has.
Malformed ==
  /\ ~done
  /\ live' = [live EXCEPT !.stopped = TRUE]
  /\ replay' = [replay EXCEPT !.bad = TRUE]
  /\ done' = TRUE
  /\ UNCHANGED name

End ==
  /\ ~done
  /\ done' = TRUE
  /\ UNCHANGED <<name, live, replay>>

\* The next event; everything is read afresh.
NewEvent ==
  /\ done
  /\ name' \in Names
  /\ live' = UnreadLive /\ replay' = UnreadReplay
  /\ done' = FALSE

DecodingNext == Bytes \/ Varint \/ Group \/ Malformed \/ End \/ NewEvent

DecodingSpec == DecodingInit /\ [][DecodingNext]_decodingVars

-----------------------------------------------------------------------------
(* What becomes of the event                                                 *)

Nothing == [kind |-> "none", from |-> NoAddr, to |-> NoAddr, value |-> 0]
Refused == [Nothing EXCEPT !.kind = "error"]

\* processEvent
Counted ==
  IF name.kind \in Kinds /\ live.value \in 1 .. MaxSafeValue
  THEN [kind |-> name.kind, from |-> live.from, to |-> live.to, value |-> live.value]
  ELSE Nothing

\* decodeRawTokenEvent's result.
Decoded ==
  [kind  |-> name.kind,
   from  |-> IF name.kind = "mint" THEN NoAddr ELSE replay.addrs[1],
   to    |-> CASE name.kind = "transfer" -> replay.addrs[2]
               [] name.kind = "mint"     -> replay.addrs[1]
               [] OTHER                  -> NoAddr,
   value |-> replay.nums[ValueField]]

\* opsOf with eventType: an unusable value or a malformed address is an error.
Replayed ==
  IF ~(name.kind \in Kinds /\ name.ends) THEN Nothing
  ELSE IF replay.bad \/ Decoded.value > MaxSafeValue THEN Refused
  ELSE IF Decoded.value = 0 THEN Nothing
  ELSE IF {Decoded.from, Decoded.to} \cap OddAddrs # {} THEN Refused
  ELSE IF {Decoded.from, Decoded.to} = {NoAddr} THEN Nothing
  ELSE Decoded

MovesValue(e) == e.kind \in Kinds /\ {e.from, e.to} # {NoAddr}

-----------------------------------------------------------------------------
(* Properties                                                                *)

\* Every variable has its type, and a payload given up is read no further.
DecodingTypeOK ==
  /\ name \in Names /\ done \in BOOLEAN
  /\ live \in [from : Addrs, to : Addrs, value : Values \cup {0}, stopped : BOOLEAN]
  /\ replay \in [addrs : [1 .. 2 -> Addrs], nums : [1 .. 3 -> Values \cup {0}], bad : BOOLEAN]
  /\ replay.bad => done /\ live.stopped

\* An event named as the token standards name it, whose payload both decoders
\* left at the same place, moves the same value between the same addresses in
\* the replay as in the live processing, or the replay refuses it: it is never
\* counted by one and skipped by the other, and never counted differently.
SameMove ==
  (done /\ name.ends /\ live.stopped = replay.bad /\ Replayed # Refused) =>
     /\ MovesValue(Counted) <=> MovesValue(Replayed)
     /\ MovesValue(Counted) => Counted = Replayed
================================================================================
