SPECIFICATION Spec
CONSTANTS
  Mul = Mul
  Add = Add
  Other = Other
  mul_two = mul_two
  mul_three = mul_three
  add = add
  ConfigTypes = {Mul, Add, Other}
  Objects = {mul_two, mul_three, add}
  TypeOf <- MCTypeOf
  Values = {2, 3}
  NoValue = NoValue
  MaxConfigs = 3
INVARIANTS
  TypeOK
  OneConfigPerType
PROPERTIES
  GetConfigExact
CHECK_DEADLOCK FALSE
