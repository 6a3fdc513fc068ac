------------------------------ MODULE ConfigJson ------------------------------
(***************************************************************************)
(* What becomes of the numbers in a POST: xxxFromJson (web/config_json.cpp)*)
(* refuses some, narrows the others to the width of their field, and       *)
(* configValidate (config/config_types.cpp) clamps what it finds there.    *)
(* A section is a function from its fields to numbers, the elements of an  *)
(* array being fields of their own.  A posted object has those fields      *)
(* whose number passes its type test (is<int>, is<uint32_t>, is<float>);   *)
(* the others are as if absent.  Ratios and factors are in thousandths.    *)
(* Truth values are copied and strings truncated, and left out here.       *)
(***************************************************************************)
EXTENDS Integers

\* What a field holds.
Kinds == {"protocol", "priority", "baud", "signedPin", "channel", "pwmMode", "pin",
          "rate", "threshold", "pulse", "ratio", "factor", "cells", "level",
          "failsafeMode"}

\* The kinds of which a POST is refused if the number is outside Allowed(k);
\* of a ratio, if it is not positive.
Refusing == {"protocol", "priority", "channel", "pwmMode", "failsafeMode", "factor"}

Allowed(k) ==
  CASE k = "protocol"      -> 0 .. 3      \* ProtocolType
    [] k = "priority"      -> 0 .. 1      \* RECEIVER_PORT_COUNT - 1
    [] k = "channel"       -> 0 .. 15     \* RC_CHANNEL_COUNT - 1
    [] k = "pwmMode"       -> 0 .. 2      \* PwmMode
    [] k = "failsafeMode"  -> 0 .. 2      \* FailsafeMode
    [] k = "factor"        -> 500 .. 2000

Accepted(k, n) ==
  /\ k \in Refusing => n \in Allowed(k)
  /\ k = "ratio" => n > 0

\* The casts: (int8_t), (uint8_t), (uint16_t); the numbers of the refusing
\* kinds and bauds, which are taken as uint32_t, fit their fields.
Narrowed(k, n) ==
  CASE k = "signedPin"                      -> ((n + 128) % 256) - 128
    [] k \in {"pin", "cells", "level"}       -> n % 256
    [] k \in {"rate", "threshold", "pulse"}  -> n % 65536
    [] OTHER                                 -> n

\* The kinds configValidate clamps, and their limits.  A channel number that
\* names no channel is replaced there; after xxxFromJson there is none.
Clamping == {"rate", "pulse", "cells", "ratio", "factor"}

Limits(k) ==
  CASE k = "rate"   -> <<50, 333>>
    [] k = "pulse"  -> <<988, 2012>>
    [] k = "cells"  -> <<1, 12>>
    [] k = "ratio"  -> <<1000, 100000>>
    [] k = "factor" -> <<500, 2000>>

\* clampU8, clampU16, clampF32, clampPulseUs.
Clamp(n, limits) ==
  IF n < limits[1] THEN limits[1] ELSE IF n > limits[2] THEN limits[2] ELSE n

Clamped(k, n) == IF k \in Clamping THEN Clamp(n, Limits(k)) ELSE n

\* What a posted number of kind k ends up as.
Stored(k, n) == Clamped(k, Narrowed(k, n))

-----------------------------------------------------------------------------
\* A section old after a POST with the numbers of posted: kinds gives the kind
\* of each field.  One bad number refuses all of it.
Acceptable(kinds, posted) == \A f \in DOMAIN posted : Accepted(kinds[f], posted[f])

FromJson(kinds, old, posted) ==
  IF Acceptable(kinds, posted)
  THEN [f \in DOMAIN old |->
          IF f \in DOMAIN posted THEN Narrowed(kinds[f], posted[f]) ELSE old[f]]
  ELSE old

\* configValidate of one section.
Validated(kinds, section) == [f \in DOMAIN section |-> Clamped(kinds[f], section[f])]

\* xxxToJson: every field, as the number it is.
ToJson(section) == section

\* The numbers of a field of kind k that the modules are written for: what a
\* switch over an enumeration, an array of channels or a timer expects.
Usable(k) ==
  CASE k \in Clamping                   -> Limits(k)[1] .. Limits(k)[2]
    [] k \in Refusing \ Clamping        -> Allowed(k)
    [] k = "signedPin"                  -> -128 .. 127
    [] k \in {"pin", "level"}           -> 0 .. 255
    [] k = "threshold"                  -> {n \in Nat : n < 65536}
    [] k = "baud"                       -> Nat

\* The sections with numbers, and the kinds of their fields.
ReceiverKinds == [protocol |-> "protocol", priority |-> "priority", baud |-> "baud",
                  rx_pin |-> "signedPin", tx_pin |-> "signedPin"]
OutputKinds == [protocol |-> "protocol", baud |-> "baud", rx_pin |-> "signedPin",
                tx_pin |-> "signedPin", channel_map |-> "channel"]
PwmKinds == [mode |-> "pwmMode", pin |-> "pin", source_channel |-> "channel",
             update_rate_hz |-> "rate", switch_threshold_us |-> "threshold",
             failsafe_us |-> "pulse"]
VoltageKinds == [adc_pin |-> "pin", divider_ratio |-> "ratio",
                 calibration_factor |-> "factor", cell_count |-> "cells"]
SystemKinds == [log_level |-> "level", failsafe_mode |-> "failsafeMode",
                failsafe_channels |-> "pulse"]
=============================================================================
