\* Three captures that declare different families for one source.
SPECIFICATION Spec
CONSTANTS
  c1 = c1 c2 = c2 c3 = c3 c4 = c4 l1 = l1 l2 = l2 l3 = l3 r1 = r1
  site = site blog = blog url = url tracked = tracked upstream = upstream
  text = text edit = edit Acme = Acme Zenith = Zenith zenith = zenith
  Undeclared = Undeclared
  Absent = Absent
  PageOf <- Pages
  FamilyOf <- Declared
  LinkPage <- LinkPages
  LinkUrl <- LinkUrls
  Canon <- Spellings
  Fold <- Classes
  Captures = {c1, c2, c3}
  Links = {}
  SourceOf <- OneSource
\* Every transaction of the instance ends.
CHECK_DEADLOCK FALSE
PROPERTIES FamilyIsNeverReplaced
