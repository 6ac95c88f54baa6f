CONSTANT Methods <- MCMethods
SPECIFICATION CodeSpec
INVARIANTS OperandsAsSpecified ReferencesAreOneToOne CodeIsFollowed
