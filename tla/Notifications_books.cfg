SPECIFICATION Spec
CONSTANTS
  Client = {c1, c2}
  Service = {s1, s2}
  Timer = {t1, t2}
  NoService = NoService
  NoTimer = NoTimer
  Nobody = Nobody
  MaxLate = 1
SYMMETRY Alike
INVARIANTS
  EveryListenerHears
  NoDeadSubscriber
  EnabledIsOn
  DisablesOnlyUnheard
  UnheardIsFollowedUp
\* a stopped runtime may have nothing left to do
CHECK_DEADLOCK FALSE
