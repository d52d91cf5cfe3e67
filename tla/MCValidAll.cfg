CONSTANTS
  a = a
  b = b
  c = c
  d = d
  a1 = a1
  a2 = a2
  b1 = b1
  b2 = b2
  f = f
  f1 = f1
  f2 = f2
  g = g
  h = h
  lib = lib
  app = app
  mid = mid
  base = base
  AppDeps = {mid, base}
  AppImports = {b1, b2, d}
  None = None
  Message <- MCMessage
  File <- MCFile
  Library = {lib, app, mid, base}
  FileOf <- MCFileOf
  Declared <- MCDeclared
  FilesOf <- MCFilesOf
  ValidDeps <- MCValidDeps
  Name <- MCName
  Schemas <- MCSchemas
SPECIFICATION FairSpec
INVARIANTS
  TypeOK
  NeedsValidIsLeast
  NoCycleIsAccepted
  OnlyCyclesAreRejected
  DeclaredBeforeUse
  RunsAgree
PROPERTY Terminates
CHECK_DEADLOCK FALSE
