\* Every call of dict.h on trees of up to seven nodes.  Keys 0 and 7 share a
\* hash, and NULL is stored.
SPECIFICATION DictSpec
CONSTANTS
  Keys = {0, 1, 2, 3, 4, 5, 6, 7}
  Hash <- ModHash
  HashRange = 7
  Data = {one, NULL}
  NULL = NULL
VIEW Shape
INVARIANTS RedBlack VisitsAllInOrder
PROPERTIES KeysBelong DictionarySpec
