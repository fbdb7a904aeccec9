----------------------------- MODULE BatteryGauge -----------------------------
(***************************************************************************)
(* The charge that the PMIC GLINK driver shows of the battery: the arms of *)
(* PmicGlink_RetrieveRxData that decode a charge status, the battery       *)
(* information, a state of charge and a debug message, and the conversions *)
(* they call.                                                              *)
(*                                                                         *)
(* The firmware sends the remaining capacity in an unknown unit: per cent, *)
(* hundredths of a per cent, the unit of the full capacity, or one a       *)
(* hundred or a thousand times smaller.  The newer state of charge, once   *)
(* known, overrides what was made of it.                                   *)
(*                                                                         *)
(* The answers to a query are decoded by the thread that holds the         *)
(* transport, Holder: that there is one at a time is GlinkTransport!       *)
(* Exclusive, and two callers at once, which only happens when it is       *)
(* disturbed, are left out.  A debug message is decoded by a work item,    *)
(* which claims nothing and takes no lock.  So an arm is as many steps as  *)
(* it has stores that another thread can come between.  When which query   *)
(* is sent (three throttles) is left out: replies come in any order.       *)
(* Rates, voltages, names and dates are copied and left out.               *)
(***************************************************************************)
EXTENDS Integers

(* 0xFFFFFFFF: not known.                                                  *)
Unknown == -1
ULONG == Nat \cup {Unknown}

(* What the driver assumes of a battery it has no information about.       *)
InitialCapacity == 22600

(* The state of charge that the firmware answers when it knows nothing     *)
(* better.                                                                 *)
Placeholder == 10000

CONSTANTS
  Capacities,  (* what the firmware may send as a capacity                 *)
  Charges,     (* ... and as a state of charge                             *)
  Holder,      (* the thread that holds the transport                      *)
  Workers      (* the work items that a debug message starts               *)

ASSUME GaugeAssumption == Capacities \subseteq ULONG /\ Charges \subseteq ULONG

ASSUME HolderAssumption == Holder \notin Workers

Decoders == {Holder} \cup Workers

(* What a decoder does next.                                               *)
Stores == {"idle", "full", "normalize", "compute", "test", "clear",
           "adopt", "soc", "valid", "percentage", "scale", "capacity"}

VARIABLES
  designed,    (* LegacyBattInfo.designed_capacity                         *)
  full,        (* LegacyBattInfo.full_charged_capacity                     *)
  raw,         (* LegacyChargeStatusRawCapacity                            *)
  capacity,    (* LegacyChargeStatus.capacity                              *)
  percentage,  (* LegacyBattPercentage                                     *)
  socRaw,      (* ModernSocRaw                                             *)
  socX100,     (* ModernSocX100                                            *)
  socValid,    (* ModernSocValid                                           *)
  place,       (* where each decoder is                                    *)
  value,       (* ... and the value it has in hand, if any                 *)
  overlapped,  (* history: the decoders that another one ran beside        *)
  torn         (* history: what overlapping decoders wrote last            *)

infoVars  == <<designed, full>>
shownVars == <<capacity, percentage>>
socVars   == <<socRaw, socX100, socValid>>
overlapVars == <<overlapped, torn>>
gaugeVars == <<infoVars, raw, shownVars, socVars, place, value, overlapVars>>

---------------------------------------------------------------------------
(* Conversions.  F is the full capacity that is reported; it is usable     *)
(* when it is neither zero nor unknown.                                    *)

Usable(F) == F \notin {0, Unknown}

(* PmicGlinkGetLegacyReportedFullCapacity: the larger of the two that are  *)
(* usable.                                                                 *)
Reported(d, f) ==
  IF ~Usable(f) \/ (Usable(d) /\ d > f) THEN d ELSE f

(* x parts in n of F, rounded.                                             *)
Share(F, x, n) == (F * x + n \div 2) \div n

(* Defect: a full battery is not taken as per cent.                        *)
NormalizeBelow100(F, v) ==
  LET hundredths == Share(F, v, 10000)
  IN  IF v = Unknown \/ ~Usable(F) THEN v
      ELSE IF v < 100 THEN Share(F, v, 100)
      ELSE IF v <= 10000 /\ hundredths \in 1 .. F THEN hundredths
      ELSE v

(* PmicGlinkNormalizeLegacyRemainingCapacity guesses the unit.             *)
Normalize(F, v) ==
  LET hundredths == Share(F, v, 10000)
      tooLarge   == v > 4 * F
      fits(n)    == v \div n # 0 /\ v \div n <= 2 * F
  IN  IF v = Unknown \/ ~Usable(F) THEN v
      ELSE IF v <= 100 THEN Share(F, v, 100)
      ELSE IF v <= 10000 /\ hundredths \in 1 .. F THEN hundredths
      ELSE IF tooLarge /\ fits(1000) THEN v \div 1000
      ELSE IF tooLarge /\ fits(100) THEN v \div 100
      ELSE v

(* Defect: the percentage of a capacity above the full one is not capped.  *)
PercentageUncapped(F, c) ==
  IF c = Unknown THEN percentage
  ELSE IF c <= 100 THEN c
  ELSE IF Usable(F) THEN Share(100, c, F)
  ELSE IF c <= 10000 THEN Share(1, c, 100)
  ELSE 100

(* PmicGlinkComputeLegacyBattPercentage, of a capacity already normalized. *)
Percentage(F, c) ==
  IF c = Unknown THEN percentage
  ELSE IF c <= 100 THEN c
  ELSE IF Usable(F)
    THEN IF Share(100, c, F) > 100 THEN 100 ELSE Share(100, c, F)
  ELSE IF c <= 10000 THEN Share(1, c, 100)
  ELSE 100

(* PmicGlinkTryConvertModernSocX100, 0 where it fails.                     *)
SocX100(v) ==
  LET normalized ==
        IF v = Unknown THEN 0
        ELSE IF v <= 100 THEN v * 100
        ELSE IF v <= 10000 THEN v
        ELSE IF v <= 100000 THEN Share(1, v, 10)
        ELSE IF v <= 1000000 THEN Share(1, v, 100)
        ELSE 0
  IN  IF normalized > 10000 THEN 0 ELSE normalized

(* What PmicGlinkApplyModernSocToLegacy makes of a state of charge s.      *)
SocPercentage(s) == Share(1, s, 100)
SocCapacity(F, s) == Share(F, s, 10000)

---------------------------------------------------------------------------
(* The steps of a decoder.  History: those that overlap are noted, and so  *)
(* is what they may leave torn: the state of charge, until a decoder that  *)
(* runs alone stores one, and what is shown, until one shows it.           *)

Busy == {t \in Decoders : place[t] # "idle"}

Begin(t, p, v) ==
  /\ place[t] = "idle"
  /\ place' = [place EXCEPT ![t] = p]
  /\ value' = [value EXCEPT ![t] = v]
  /\ IF Busy = {}
       THEN UNCHANGED overlapVars
       ELSE overlapped' = Busy \cup {t} /\ torn' = {"soc", "shown"}

Go(t, p, q) == place[t] = p /\ place' = [place EXCEPT ![t] = q]

Mends(t, what) == torn' = IF t \in overlapped THEN torn ELSE torn \ what

End(t, p, what) ==
  /\ Go(t, p, "idle")
  /\ overlapped' = overlapped \ {t}
  /\ Mends(t, what)
  /\ value' = [value EXCEPT ![t] = Unknown]

FullNow == Reported(designed, full)

---------------------------------------------------------------------------
(* The arms of PmicGlink_RetrieveRxData.                                   *)

ChargeStatusReply(v) ==
  /\ Begin(Holder, "normalize", Unknown)
  /\ raw' = v
  /\ UNCHANGED <<infoVars, shownVars, socVars>>

BattInfoReply(d, f) ==
  /\ Begin(Holder, "full", f)
  /\ designed' = d
  /\ UNCHANGED <<full, raw, shownVars, socVars>>

StoreFull ==
  /\ Go(Holder, "full", "normalize")
  /\ full' = value[Holder]
  /\ value' = [value EXCEPT ![Holder] = Unknown]
  /\ UNCHANGED <<designed, raw, shownVars, socVars, overlapVars>>

NormalizeCapacity ==
  /\ Go(Holder, "normalize", "compute")
  /\ capacity' = Normalize(FullNow, raw)
  /\ UNCHANGED <<infoVars, raw, percentage, socVars, value, overlapVars>>

ComputePercentage ==
  /\ Go(Holder, "compute", "test")
  /\ percentage' = Percentage(FullNow, capacity)
  /\ UNCHANGED <<infoVars, raw, capacity, socVars, value, overlapVars>>

(* A state of charge that is known overrides both.                         *)
Override ==
  /\ socValid
  /\ Go(Holder, "test", "soc")
  /\ value' = [value EXCEPT ![Holder] = socX100]
  /\ UNCHANGED <<infoVars, raw, shownVars, socVars, overlapVars>>

(* Defect: what was computed is left to be shown.                          *)
NothingOverridden ==
  /\ End(Holder, "test", {"shown"})
  /\ UNCHANGED <<infoVars, raw, shownVars, socVars>>

NothingToOverride ==
  /\ ~socValid
  /\ End(Holder, "test", {"shown"})
  /\ UNCHANGED <<infoVars, raw, shownVars, socVars>>

BetterKnown == socValid /\ socRaw \notin {Unknown, Placeholder}

SocReply(v) ==
  /\ SocX100(v) # 0
  /\ ~(v = Placeholder /\ BetterKnown)
  /\ Begin(Holder, "adopt", v)
  /\ UNCHANGED <<infoVars, raw, shownVars, socVars>>

SocReplyInvalid(v) ==
  /\ SocX100(v) = 0
  /\ ~BetterKnown
  /\ Begin(Holder, "clear", Unknown)
  /\ UNCHANGED <<infoVars, raw, shownVars, socVars>>

Clear ==
  /\ End(Holder, "clear", {})
  /\ socValid' = FALSE
  /\ UNCHANGED <<infoVars, raw, shownVars, socRaw, socX100>>

(* A debug message whose text names a convertible state of charge.         *)
DebugMessage(w, v) ==
  /\ SocX100(v) # 0
  /\ Begin(w, "adopt", v)
  /\ UNCHANGED <<infoVars, raw, shownVars, socVars>>

Adopt(t) ==
  /\ Go(t, "adopt", "soc")
  /\ socRaw' = value[t]
  /\ value' = [value EXCEPT ![t] = SocX100(value[t])]
  /\ Mends(t, {"soc"})
  /\ UNCHANGED <<infoVars, raw, shownVars, socX100, socValid, overlapped>>

---------------------------------------------------------------------------
(* PmicGlinkApplyModernSocToLegacy.                                        *)

StoreSoc(t) ==
  /\ Go(t, "soc", "valid")
  /\ socX100' = value[t]
  /\ UNCHANGED <<infoVars, raw, shownVars, socRaw, socValid, value, overlapVars>>

StoreValid(t) ==
  /\ Go(t, "valid", "percentage")
  /\ socValid' = TRUE
  /\ UNCHANGED <<infoVars, raw, shownVars, socRaw, socX100, value, overlapVars>>

StorePercentage(t) ==
  /\ Go(t, "percentage", "scale")
  /\ percentage' = SocPercentage(value[t])
  /\ UNCHANGED <<infoVars, raw, capacity, socVars, value, overlapVars>>

(* The capacity follows, unless the full one is unusable.                  *)
Unusable(t) ==
  /\ ~Usable(FullNow)
  /\ End(t, "scale", {"shown"})
  /\ UNCHANGED <<infoVars, raw, shownVars, socVars>>

ScaleCapacity(t) ==
  /\ Usable(FullNow)
  /\ Go(t, "scale", "capacity")
  /\ value' = [value EXCEPT ![t] = SocCapacity(FullNow, value[t])]
  /\ UNCHANGED <<infoVars, raw, shownVars, socVars, overlapVars>>

StoreCapacity(t) ==
  /\ End(t, "capacity", {"shown"})
  /\ capacity' = value[t]
  /\ UNCHANGED <<infoVars, raw, percentage, socVars>>

---------------------------------------------------------------------------
GaugeInit ==
  /\ designed = InitialCapacity /\ full = InitialCapacity
  /\ raw = Unknown /\ capacity = Unknown /\ percentage = 75
  /\ socRaw = Unknown /\ socX100 = Unknown /\ socValid = FALSE
  /\ place = [t \in Decoders |-> "idle"]
  /\ value = [t \in Decoders |-> Unknown]
  /\ overlapped = {} /\ torn = {}

Reply ==
  \/ \E v \in Capacities : ChargeStatusReply(v)
  \/ \E d, f \in Capacities : BattInfoReply(d, f)
  \/ \E v \in Charges : SocReply(v) \/ SocReplyInvalid(v)

Decode == StoreFull \/ NormalizeCapacity \/ ComputePercentage
            \/ Override \/ NothingToOverride \/ Clear

Apply(t) == Adopt(t) \/ StoreSoc(t) \/ StoreValid(t) \/ StorePercentage(t)
              \/ Unusable(t) \/ ScaleCapacity(t) \/ StoreCapacity(t)

GaugeNext ==
  \/ Reply \/ Decode
  \/ \E w \in Workers, v \in Charges : DebugMessage(w, v)
  \/ \E t \in Decoders : Apply(t)

GaugeSpec == GaugeInit /\ [][GaugeNext]_gaugeVars

---------------------------------------------------------------------------
(* Properties.                                                             *)

(* Type correctness: the percentage is one, whatever capacity the firmware *)
(* sends, and no state of charge above 100 % or unknown is ever valid,     *)
(* however the threads that store one overlap.                             *)
GaugeTypeOK ==
  /\ designed \in ULONG /\ full \in ULONG /\ raw \in ULONG /\ capacity \in ULONG
  /\ percentage \in Nat /\ percentage <= 100
  /\ socRaw \in ULONG /\ socX100 \in ULONG /\ socValid \in BOOLEAN
  /\ socValid => socX100 > 0 /\ socX100 <= 10000 /\ socRaw # Unknown
  /\ place \in [Decoders -> Stores] /\ value \in [Decoders -> ULONG]
  /\ overlapped \subseteq Decoders /\ torn \subseteq {"soc", "shown"}

(* At rest a known state of charge is what is shown: neither a charge      *)
(* status nor the battery information undoes it, and the capacity follows  *)
(* the full capacity reported now, whichever reply changed it last.  The   *)
(* exception is the code's: what decoders that overlapped have left stays  *)
(* until one that runs alone shows the charge again.                       *)
KnownSocIsShown ==
  Busy = {} /\ "shown" \notin torn /\ socValid =>
    /\ percentage = SocPercentage(socX100)
    /\ Usable(FullNow) => capacity = SocCapacity(FullNow, socX100)

(* At rest, with no overlap to mend, a capacity sent in per cent has come  *)
(* back as that percentage, through the guess of its unit and two          *)
(* roundings, whichever reply came last.  It does for a full capacity from *)
(* 10050 on only: below, a hundredth of it may be under 101 and is taken   *)
(* for a percentage itself, so that a battery at 1 % can show 100 %.       *)
PercentageSurvives ==
  Busy = {} /\ torn = {} /\ ~socValid /\ raw \in 0 .. 100 /\ FullNow >= 10050 =>
    \/ percentage = raw
    \/ socRaw = Placeholder /\ percentage = 100
=============================================================================
