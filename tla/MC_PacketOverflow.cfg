\* The buffer holds as many bytes as the packet size advertised: 128 and 128.
SPECIFICATION Spec
CONSTANTS
  Chars <- MCChars
  BufferSize = 4
  PacketSize = 4
PROPERTIES
  AdvertisedSizeFits
