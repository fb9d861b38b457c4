\* Two radios; one that reports under the other's number
CONSTANTS
  Radios = {1, 2}
  Dials <- MCDials
  FirstActive = 1
  DefaultActive = 2
  Throttle = 1
  Heartbeat = 3
  Slack = 1
  None = None
SPECIFICATION LiveSpec
PROPERTY EachRadioIsHeard
