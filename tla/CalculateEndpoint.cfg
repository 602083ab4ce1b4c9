SPECIFICATION Spec
CONSTANTS
    ExpertIds = {a, b, c, d}
    Numbers <- MCNumbers
    LikertValues <- MCLikertValues
    Unit <- MCUnit
    MaxExperts = 4
SYMMETRY MCSymmetry
INVARIANTS
    TypeOK
    MedianIsMiddle
    MedianStaysInMiddle
    MaxErrorIsDistance
    OrderIndependent
    DistinctExpertsAnswered
