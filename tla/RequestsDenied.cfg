SPECIFICATION Spec
INVARIANT StorageAdviceIsAboutStorage
CHECK_DEADLOCK FALSE
