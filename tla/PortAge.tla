------------------------------- MODULE PortAge -------------------------------
(***************************************************************************)
(* One receiver port on its own, with the real time since it last took a   *)
(* frame as a history variable: is the age that isAlive computes from      *)
(* 32-bit readings the age of the link?                                    *)
(***************************************************************************)
EXTENDS ReceiverPort

CONSTANTS
  Configs,      \* the configurations the port can be given
  LinkTimeout,  \* link_timeout_ms
  AgeMaxStep    \* the largest number of milliseconds between two updates

ASSUME PortAgeAssumption ==
  /\ Configs \subseteq PortConfig
  /\ LinkTimeout \in Nat
  /\ AgeMaxStep \in Nat
  /\ ParserTimeout + AgeMaxStep < Wrap

VARIABLES
  clock,    \* millis()
  port,     \* the ReceiverPort
  silence,  \* real time since it took a frame of channels, at most Wrap
  watched   \* whether every update since then ran its parser

ageVars == <<clock, port, silence, watched>>

AgeUpdate(d, b) ==
  /\ clock' = Later(clock, d)
  /\ port' = PumpPort(port, b[1], b[2], clock')
  /\ IF \E i \in {1, 2} : b[i].kind \in {"rc", "override"}
     THEN silence' = 0 /\ watched' = TRUE
     ELSE /\ silence' = IF silence + d < Wrap THEN silence + d ELSE Wrap
          /\ watched' = (watched /\ Running(port))

AgeSetConfig(cfg) ==
  /\ port' = SetPortConfig(port, cfg)
  /\ UNCHANGED <<clock, silence, watched>>

AgeInit ==
  /\ clock = 0
  /\ port \in {Reapply(c) : c \in Configs}
  /\ silence = Wrap
  /\ watched = TRUE

AgeNext ==
  \/ \E d \in 0 .. AgeMaxStep : \E b \in Batches(port, TRUE) : AgeUpdate(d, b)
  \/ \E c \in Configs : AgeSetConfig(c)

AgeSpec == AgeInit /\ [][AgeNext]_ageVars

-----------------------------------------------------------------------------
AgeTypeOK ==
  /\ clock \in Stamp
  /\ port \in Port
  /\ silence \in 0 .. Wrap
  /\ watched \in BOOLEAN

\* A port that has received channels counts as alive only if it did so within
\* the link timeout ("no frame for this long => dead", config_types.h:34), or
\* when the clock is back at the reading of the last frame.  An enabled SBUS
\* port never is then, because SilenceTick clears valid in time and nothing
\* but a frame sets it; MAVLink never clears it, CRSF link statistics set it
\* without a frame, and a disabled port is not looked at.
AliveIsRecent ==
  (port.seen /\ IsAlive(port, clock, LinkTimeout))
    => \/ silence < LinkTimeout
       \/ silence = Wrap /\ (port.cfg.protocol # "SBUS" \/ ~watched)

\* No sequence of frames, silences and reconfigurations leaves a frame
\* marked valid behind a link that is not, whichever parser runs.
FrameNeedsLink == port.frameValid => port.valid /\ port.seen
=============================================================================
