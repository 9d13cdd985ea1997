CONSTANT MaxSeq <- MCMaxSeq
SPECIFICATION SackSpec
INVARIANT Canonical
INVARIANT Exact
