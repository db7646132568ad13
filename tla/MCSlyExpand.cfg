SPECIFICATION Spec
CONSTANTS
    Programs <- Everything
INVARIANTS TypeOK Hygienic ErrorsAreErrors EachFileOnce
