\* Two radios; the throttle shorter than the heartbeat
CONSTANTS
  Radios = {1, 2}
  Dials <- MCDials
  FirstActive = 1
  DefaultActive = 2
  Throttle = 1
  Heartbeat = 3
  Slack = 1
  None = None
SPECIFICATION LiveSpec
INVARIANTS NeverSilent
PROPERTIES Throttled ListenersCatchUp
