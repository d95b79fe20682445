SPECIFICATION Spec
CONSTANTS
  Calls = {c1, c2}
  Assigned = {"list_catalogs", "execute_sql_safe"}
  Tokens = {t1, t2}
  Unset = Unset
  NoClient = NoClient
  MaxRotations = 2
SYMMETRY Symmetry
INVARIANTS
  TypeOK
  CredentialInForce
  DefaultIsFromBoot
  OneTokenPerCall
