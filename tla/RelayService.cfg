CONSTANTS
    m1 = m1 m2 = m2 m3 = m3 s1 = s1 s2 = s2
    bob = bob eve = eve
    bobHash = bobHash BOBHASH = BOBHASH eveHash = eveHash
    NoKey = NoKey NoAddress = NoAddress
    Msg = {m1, m2}
    Session = {s1, s2}
    Key = {bob}
    Address = {bobHash, BOBHASH, eveHash}
    HexAddress = {bobHash, BOBHASH, eveHash}
    HashOf <- MCHashOfBob
    To <- MCToBob
    PayloadLen <- MCLenBob
    NonceLen <- MCLenBob
    MaxPayload = 2
    TTL = 1
SPECIFICATION FairSpec
PROPERTIES RefinesBlindDrop HandedReaches RowsLeave
