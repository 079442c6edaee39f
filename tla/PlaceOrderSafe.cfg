SPECIFICATION Spec
CONSTANTS
  NoLimit = NoLimit
  NoAttempt = NoAttempt
  NoKey = NoKey
  NoCode = NoCode
  NoRow = NoRow
  NotOffered = NotOffered
  Code = {c1}
  Limit = {1}
  Attempt = {a1, a2}
  User = {u1, u2}
  Key = {k1}
  Basket = {b1}
  MaxAttempts = 3
SYMMETRY Alike
INVARIANTS
  OneOrderPerKey
  AnswersAgree
  PromoAccounting
  
CHECK_DEADLOCK FALSE
