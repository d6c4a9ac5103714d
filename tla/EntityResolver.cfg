SPECIFICATION ResolverSpec
CONSTANTS
  Entities = {1, 2, 3, 4}
  EntityLabels = {"Person", "Author"}
  LabelsOf <- TwoLabels
  Similarities <- SomeSimilarities
  Resolvers = {1, 2}
INVARIANTS
  MergedAreSimilar
  PairsAreResolved
