CONSTANTS
  NRng = 2
  NPval <- PValues
  NNode = 2
  Serial = {"serial", "migration"}
  Mpi = {"mpi"}
  MaxTests = 2
  Migrations <- OneMigrates
SPECIFICATION FairSpec
PROPERTIES Ends
