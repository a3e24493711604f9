CONSTANTS
  a = a
  u = u
  v = v
  da = da
  du1 = du1
  du2 = du2
  dv = dv
  t1 = t1
  t2 = t2
  Null = Null
  Blank = Blank
  Raises = Raises
  dev <- DevText
SPECIFICATION Spec
INVARIANTS OutsidersChangeNothing TargetsAreFiltered BodyReadable SecretPrecedence OneEnvironment
