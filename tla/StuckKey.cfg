\* The keyer as CWService runs it, on another thread than its timers
SPECIFICATION FairSpec
PROPERTY ToneEnds
