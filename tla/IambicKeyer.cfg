\* Both modes, moved to a thread or not
SPECIFICATION Spec
INVARIANT OneMoreAtMost
PROPERTIES SentIsAsked OppositeIsNext
